---- MODULE Spec2Model ----
(***************************************************************************)
(* Model of the telegram timesheet bot (app/service.py, app/main.py).      *)
(*                                                                         *)
(* Text is modelled at character level: a string is a sequence of          *)
(* one-character strings, so that the regular expressions of service.py    *)
(* are computed as Python's re module computes them.  Python's None for an *)
(* optional string is the value None below; a missing FlightRow is NoRow.  *)
(***************************************************************************)
EXTENDS Integers, Sequences, FiniteSets, TLC

VARIABLES
    text,           \* parse_timesheet: the raw lines of the text read so far
    current_date,   \* parse_timesheet: local current_date
    entries,        \* parse_timesheet: local entries
    row,            \* the latest call of _parse_row: its arguments and outcome
    ppc,            \* parse_timesheet / pipeline position
    reply,          \* outcome of group_trips and trips_to_message on the parse result
    gin,            \* group_trips: the entries consumed so far
    trips,          \* group_trips: local trips
    current,        \* group_trips: local current
    gpc,            \* group_trips position
    glast,          \* group_trips: what the latest loop iteration did
    PENDING_UPLOADS,\* main.py module global
    sent,           \* messages handed to telegram_bot.send_message, in order
    appended,       \* rows handed to sheets.append_row, in order
    last_update,    \* the update the latest webhook call received
    response,       \* outcome of the latest webhook call
    merged,         \* the latest run of the continuation merge: its input and output
    sheet           \* outcome of trips_to_sheet_rows on the trips

vars == << text, current_date, entries, row, ppc, reply,
           gin, trips, current, gpc, glast,
           PENDING_UPLOADS, sent, appended, last_update, response,
           merged, sheet >>

parseVars   == << text, current_date, entries, row, ppc, reply >>
groupVars   == << gin, trips, current, gpc, glast >>
webhookVars == << PENDING_UPLOADS, sent, appended, last_update, response >>
exportVars  == << merged, sheet >>

-----------------------------------------------------------------------------
(* Bounds *)
MaxLines   == 3     \* lines of one text
MaxEntries == 4     \* entries handed to group_trips
MaxLegs    == 3     \* entries of a roster handed to the renderers

-----------------------------------------------------------------------------
(* Python values *)
None  == << "None" >>                 \* None where a str is expected
NoRow == [cls |-> "NoneType"]         \* None where a FlightRow is expected

Truthy(x) == x # None /\ x # << >>    \* bool(x) for x: str | None

(* Character classes of Python's re (ASCII part) *)
Digit == {"0","1","2","3","4","5","6","7","8","9"}
Upper == {"A","B","C","D","E","F","G","H","I","J","K","L","M",
          "N","O","P","Q","R","S","T","U","V","W","X","Y","Z"}
Alpha == Upper \cup
         {"a","b","c","d","e","f","g","h","i","j","k","l","m",
           "n","o","p","q","r","s","t","u","v","w","x","y","z"}
WordChar == Alpha \cup Digit \cup {"_"}
Space == {" "}

InRange(s, i) == i >= 1 /\ i <= Len(s)
\* the character at position i is (is not) of the class
Is(class, s, i) == InRange(s, i) /\ s[i] \in class
IsNot(class, s, i) == InRange(s, i) /\ s[i] \notin class
\* the character at position i is c
IsChar(s, i, c) == InRange(s, i) /\ s[i] = c

\* \b before position i (i = Len(s)+1 is the end of the string)
WordBoundary(s, i) == Is(WordChar, s, i - 1) # Is(WordChar, s, i)

\* literal t at position i of s
LiteralAt(s, i, t) == /\ i + Len(t) - 1 <= Len(s)
                      /\ \A k \in 1..Len(t) : s[i + k - 1] = t[k]

\* "t in s"
Contains(s, t) == \E i \in 1..Len(s) : LiteralAt(s, i, t)

\* s.startswith(t)
StartsWith(s, t) == LiteralAt(s, 1, t)

\* s.replace(" ", "")
RECURSIVE RemoveSpaces(_)
RemoveSpaces(s) ==
    IF s = << >> THEN << >>
    ELSE IF Head(s) = " " THEN RemoveSpaces(Tail(s))
    ELSE << Head(s) >> \o RemoveSpaces(Tail(s))

\* s.strip()
RECURSIVE LStrip(_)
LStrip(s) == IF s # << >> /\ Head(s) \in Space THEN LStrip(Tail(s)) ELSE s
RECURSIVE RStrip(_)
RStrip(s) == IF s # << >> /\ s[Len(s)] \in Space
             THEN RStrip(SubSeq(s, 1, Len(s) - 1)) ELSE s
Strip(s) == RStrip(LStrip(s))

\* " ".join(toks)
RECURSIVE Join(_)
Join(toks) == IF toks = << >> THEN << >>
              ELSE IF Len(toks) = 1 THEN toks[1]
              ELSE toks[1] \o << " " >> \o Join(Tail(toks))

-----------------------------------------------------------------------------
(* Regular expressions.  XEnd(s, i) is the position just after the match  *)
(* of X that starts at position i, or 0 when X does not match there.      *)

\* re.search: the first position where the pattern matches, or 0
FirstMatch(s, ends) ==
    IF \E i \in 1..Len(s) : ends[i] # 0
    THEN CHOOSE i \in 1..Len(s) : ends[i] # 0 /\ \A j \in 1..(i - 1) : ends[j] = 0
    ELSE 0

\* re.search(...).group() for the pattern with match ends "ends", or None
Search(s, ends) ==
    LET At(p) == IF p = 0 THEN None ELSE SubSeq(s, p, ends[p] - 1)
    IN  At(FirstMatch(s, ends))

\* re.findall for a pattern without groups: non-overlapping matches, left to right
RECURSIVE Scan(_, _, _)
Scan(s, ends, i) ==
    IF i > Len(s) THEN << >>
    ELSE IF ends[i] # 0 THEN << SubSeq(s, i, ends[i] - 1) >> \o Scan(s, ends, ends[i])
    ELSE Scan(s, ends, i + 1)

\* date_pattern = \d{2}\W?[A-Za-z]{3}\W?\d{2}
DateEnd(s, i) ==
    LET b == IF IsNot(WordChar, s, i + 2) THEN i + 3 ELSE i + 2
        d == IF IsNot(WordChar, s, b + 3) THEN b + 4 ELSE b + 3
    IN  IF /\ Is(Digit, s, i) /\ Is(Digit, s, i + 1)
           /\ Is(Alpha, s, b) /\ Is(Alpha, s, b + 1) /\ Is(Alpha, s, b + 2)
           /\ Is(Digit, s, d) /\ Is(Digit, s, d + 1)
        THEN d + 2 ELSE 0

\* date_pattern.search(line): the matched text, or None
date_pattern_search(s) == Search(s, [i \in 1..Len(s) |-> DateEnd(s, i)])

\* re.findall(TIMES_REGEX_STR, line), TIMES_REGEX_STR = \b\d{4}\b
FindTimes(s) ==
    LET End(i) ==
            IF /\ WordBoundary(s, i)
               /\ Is(Digit, s, i) /\ Is(Digit, s, i + 1) /\ Is(Digit, s, i + 2) /\ Is(Digit, s, i + 3)
               /\ WordBoundary(s, i + 4)
            THEN i + 4 ELSE 0
    IN  Scan(s, [k \in 1..Len(s) |-> End(k)], 1)

\* re.findall(DURATIONS_REGEX_STR, line), DURATIONS_REGEX_STR = \b\d{2}\s?:\s?\d{2}\b
FindDurations(s) ==
    LET End(i) ==
            LET a == IF Is(Space, s, i + 2) THEN i + 3 ELSE i + 2
                b == IF Is(Space, s, a + 1) THEN a + 2 ELSE a + 1
            IN  IF /\ WordBoundary(s, i)
                   /\ Is(Digit, s, i) /\ Is(Digit, s, i + 1)
                   /\ IsChar(s, a, ":")
                   /\ Is(Digit, s, b) /\ Is(Digit, s, b + 1)
                   /\ WordBoundary(s, b + 2)
                THEN b + 2 ELSE 0
    IN  Scan(s, [k \in 1..Len(s) |-> End(k)], 1)

\* re.findall(SINGLE_SECTOR_REGEX_STR, line), SINGLE_SECTOR_REGEX_STR = \b[A-Z]{3}\b
FindSingleSectors(s) ==
    LET End(i) ==
            IF /\ WordBoundary(s, i)
               /\ Is(Upper, s, i) /\ Is(Upper, s, i + 1) /\ Is(Upper, s, i + 2)
               /\ WordBoundary(s, i + 3)
            THEN i + 3 ELSE 0
    IN  Scan(s, [k \in 1..Len(s) |-> End(k)], 1)

\* the end of the run of digits that starts at i (i itself when there is none)
RECURSIVE DigitsEnd(_, _)
DigitsEnd(s, i) == IF Is(Digit, s, i) THEN DigitsEnd(s, i + 1) ELSE i

\* re.search(STANDBY_DUTY_REGEX_STR, line): the matched text, or None;
\* STANDBY_DUTY_REGEX_STR = (SS\d+)|(STBY)
standby_search(s) ==
    LET End(i) ==
            IF LiteralAt(s, i, << "S", "S" >>) /\ Is(Digit, s, i + 2) THEN DigitsEnd(s, i + 2)
            ELSE IF LiteralAt(s, i, << "S", "T", "B", "Y" >>) THEN i + 4
            ELSE 0
    IN  Search(s, [k \in 1..Len(s) |-> End(k)])

\* OFF_DUTY_REGEX_STR = ^(ATDO|AALV|OFFD)$ ; the matched text, or None
off_duty_search(s) ==
    IF s \in { << "A", "T", "D", "O" >>, << "A", "A", "L", "V" >>, << "O", "F", "F", "D" >> }
    THEN s ELSE None

\* LAYOVER_REGEX_STR = \bLO\b ; whether re.search finds it
layover_search(s) ==
    \E i \in 1..Len(s) :
        WordBoundary(s, i) /\ LiteralAt(s, i, << "L", "O" >>) /\ WordBoundary(s, i + 2)

\* re.search(FLIGHT_NUMBER_REGEX_STR, line): the matched text, or None;
\* FLIGHT_NUMBER_REGEX_STR = (SQ\s?\d+)
flight_number_search(s) ==
    LET End(i) ==
            LET a == IF Is(Space, s, i + 2) THEN i + 3 ELSE i + 2
            IN  IF LiteralAt(s, i, << "S", "Q" >>) /\ Is(Digit, s, a)
                THEN DigitsEnd(s, a) ELSE 0
    IN  Search(s, [k \in 1..Len(s) |-> End(k)])

\* re.search(SECTOR_REGEX_STR, line).groups(): << origin, destination >>, or << >>;
\* SECTOR_REGEX_STR = ([A-Z]{3})\s?-\s?([A-Z]{3})
sector_search(s) ==
    LET \* the start of the second group of the match that starts at i, or 0
        Second(i) ==
            LET a == IF Is(Space, s, i + 3) THEN i + 4 ELSE i + 3
                b == IF Is(Space, s, a + 1) THEN a + 2 ELSE a + 1
            IN  IF /\ Is(Upper, s, i) /\ Is(Upper, s, i + 1) /\ Is(Upper, s, i + 2)
                   /\ IsChar(s, a, "-")
                   /\ Is(Upper, s, b) /\ Is(Upper, s, b + 1) /\ Is(Upper, s, b + 2)
                THEN b ELSE 0
        Groups(snd, p) ==
            IF p = 0 THEN << >>
            ELSE << SubSeq(s, p, p + 2), SubSeq(s, snd[p], snd[p] + 2) >>
        First(snd) == Groups(snd, FirstMatch(s, snd))
    IN  First([k \in 1..Len(s) |-> Second(k)])

-----------------------------------------------------------------------------
(* app/models.py: FlightRow.  A dataclass instance carries cls = "FlightRow",  *)
(* a dict entry carries cls = "dict"; only a dict has the method get.          *)
FlightRow(date, fnum, sec, orig, dest, duty, rpt, std, sta, ftime, dtime, fdp, raw) ==
    [ cls |-> "FlightRow",
      start_date |-> date, arrival_date |-> None,
      flight_number |-> fnum, sector |-> sec,
      origin |-> orig, destination |-> dest, duty_type |-> duty,
      rpt |-> rpt, std |-> std, sta |-> sta,
      flight_time |-> ftime, duty_time |-> dtime, fdp |-> fdp,
      raw_block |-> raw ]

SIN == << "S", "I", "N" >>
FLY == << "F", "L", "Y" >>
LO  == << "L", "O" >>

Returned(v) == [raised |-> "none", value |-> v]
Raised(x)   == [raised |-> x, value |-> NoRow]

\* seq[k] if len(seq) >= k else None
NthOrNone(seq, k) == IF Len(seq) >= k THEN seq[k] ELSE None

\* _parse_row: same_flight_as_prev (its truth value)
same_flight_as_prev(prev, flight_number, origin, destination) ==
    /\ prev # NoRow
    /\ prev.duty_type # LO
    /\ prev.flight_number = flight_number
    /\ prev.sector = origin \o << "-" >> \o destination

\* _parse_row: is_turnaround (its truth value)
is_turnaround(prev, flight_number, origin, destination, date) ==
    /\ prev # NoRow
    /\ prev.duty_type = FLY
    /\ Truthy(prev.flight_number)
    /\ Truthy(flight_number)
    /\ prev.origin = destination
    /\ prev.destination = origin
    /\ prev.start_date = date

\* _parse_row: the assignment of rpt, std, sta from the time tokens
assign_times(times, prev, same, turn, origin, destination) ==
    LET none == [rpt |-> None, std |-> None, sta |-> None]
    IN  IF Len(times) >= 3
        THEN [rpt |-> times[1], std |-> times[2], sta |-> times[3]]
        ELSE IF Len(times) = 2
        THEN IF same
             THEN IF Truthy(prev.rpt) /\ ~Truthy(prev.std)
                  THEN [none EXCEPT !.std = times[1], !.sta = times[2]]
                  ELSE none
             ELSE IF turn
             THEN [none EXCEPT !.std = times[1], !.sta = times[2]]
             ELSE IF origin = SIN
             THEN [none EXCEPT !.rpt = times[1], !.std = times[2]]
             ELSE [none EXCEPT !.rpt = times[1], !.std = times[2]]
        ELSE IF Len(times) = 1
        THEN IF same
             THEN IF ~Truthy(prev.sta)
                  THEN [none EXCEPT !.sta = times[1]]
                  ELSE none
             ELSE IF turn
             THEN [none EXCEPT !.std = times[1]]
             ELSE IF destination = SIN
             THEN [none EXCEPT !.sta = times[1]]
             ELSE [none EXCEPT !.rpt = times[1]]
        ELSE none

\* _parse_row: the assignment of flight_time, duty_time, fdp from the duration
\* tokens; unpacking more than three values into three names raises ValueError
assign_durations(durations, same, turn, times, sta) ==
    LET none == [raised |-> "none", flight_time |-> None, duty_time |-> None, fdp |-> None]
    IN  IF Len(durations) >= 3
        THEN IF Len(durations) = 3
             THEN [none EXCEPT !.flight_time = durations[1],
                               !.duty_time = durations[2], !.fdp = durations[3]]
             ELSE [none EXCEPT !.raised = "ValueError"]
        ELSE IF Len(durations) = 2
        THEN [none EXCEPT !.duty_time = durations[1], !.fdp = durations[2]]
        ELSE IF Len(durations) = 1
        THEN IF same THEN [none EXCEPT !.fdp = durations[1]]
             ELSE IF turn THEN [none EXCEPT !.flight_time = durations[1]]
             ELSE IF Len(times) = 1 /\ Truthy(sta) THEN [none EXCEPT !.fdp = durations[1]]
             ELSE [none EXCEPT !.flight_time = durations[1]]
        ELSE none

\* _parse_row: the standby branch
parse_standby(date, line, prev, code) ==
    LET Row(times, durations, sector) ==
            IF sector = << >> THEN Raised("IndexError")     \* sector[0]
            ELSE Returned(FlightRow(
                    date, None,
                    IF sector[1] = SIN THEN sector[1]
                    ELSE IF prev # NoRow /\ (prev.sector # SIN \/ prev.destination # SIN)
                         THEN prev.sector ELSE None,
                    None, None, code,
                    NthOrNone(times, 1), NthOrNone(times, 2), NthOrNone(times, 3),
                    None, NthOrNone(durations, 1), NthOrNone(durations, 2), None))
    IN  Row(FindTimes(line), FindDurations(line), FindSingleSectors(line))

\* _parse_row: the flight branch
parse_flight(date, line, prev) ==
    LET \* lines 220-234: the FlightRow returned
        Row(flight_number, origin, destination, t, d) ==
            IF d.raised # "none" THEN Raised(d.raised)
            ELSE Returned(FlightRow(
                    date, flight_number, origin \o << "-" >> \o destination,
                    origin, destination, FLY,
                    t.rpt, t.std, t.sta, d.flight_time, d.duty_time, d.fdp, line))
        \* lines 197-234, given the times assigned
        Durations(flight_number, origin, destination, same, turn, times, durations, t) ==
            Row(flight_number, origin, destination, t,
                assign_durations(durations, same, turn, times, t.sta))
        \* lines 153-234, given same_flight_as_prev and is_turnaround
        Times(flight_number, origin, destination, same, turn, times, durations) ==
            Durations(flight_number, origin, destination, same, turn, times, durations,
                      assign_times(times, prev, same, turn, origin, destination))
        \* lines 133-234, given the flight number and the sector
        Fields(flight_number, origin, destination) ==
            Times(flight_number, origin, destination,
                  same_flight_as_prev(prev, flight_number, origin, destination),
                  is_turnaround(prev, flight_number, origin, destination, date),
                  FindTimes(line), FindDurations(line))
        \* lines 130-234, given flight_match.group() and sector_match.groups()
        Matched(fm, sm) ==
            IF fm = None \/ sm = << >> THEN Returned(NoRow)
            ELSE Fields(RemoveSpaces(fm), sm[1], sm[2])
    IN  Matched(flight_number_search(line), sector_search(line))

HeaderA == << "S","t","a","r","t"," ","D","a","y"," ","F","l","i","g","h","t" >>
HeaderB == << "D","a","t","e"," ","N","u","m","b","e","r"," ","D","u","t","y" >>

\* _parse_row(date, line, prev): [raised, value], value = NoRow for "return None"
parse_row(date, line, prev) ==
    IF Contains(line, HeaderA) \/ Contains(line, HeaderB) THEN Returned(NoRow)
    ELSE IF standby_search(line) # None
    THEN parse_standby(date, line, prev, standby_search(line))
    ELSE IF off_duty_search(line) # None
    THEN Returned(FlightRow(date, None, SIN, None, None, off_duty_search(line),
                            None, None, None, None, None, None, None))
    ELSE IF layover_search(line)
    THEN Returned(FlightRow(date, None,
                            NthOrNone(FindSingleSectors(line), 1),
                            None, None, LO,
                            None, None, None, None, None, None, None))
    ELSE parse_flight(date, line, prev)

-----------------------------------------------------------------------------
(* The tokens and lines the texts of the model are made of *)
Tok ==
    [ d01Jan25 |-> << "0", "1", "J", "a", "n", "2", "5" >>,
      d02Jan25 |-> << "0", "2", "J", "a", "n", "2", "5" >>,
      d05Jan25 |-> << "0", "5", "J", "a", "n", "2", "5" >>,
      dDotted |-> << "0", "3", ".", "J", "a", "n", ".", "2", "5" >>,
      SQ123 |-> << "S", "Q", "1", "2", "3" >>,
      SQ124 |-> << "S", "Q", "1", "2", "4" >>,
      SIN_HKG |-> << "S", "I", "N", "-", "H", "K", "G" >>,
      HKG_SIN |-> << "H", "K", "G", "-", "S", "I", "N" >>,
      HKG |-> << "H", "K", "G" >>,
      SS50 |-> << "S", "S", "5", "0" >>,
      STBY |-> << "S", "T", "B", "Y" >>,
      ATDO |-> << "A", "T", "D", "O" >>,
      t0600 |-> << "0", "6", "0", "0" >>,
      t0900 |-> << "0", "9", "0", "0" >>,
      t1015 |-> << "1", "0", "1", "5" >>,
      t1130 |-> << "1", "1", "3", "0" >>,
      t1400 |-> << "1", "4", "0", "0" >>,
      t1600 |-> << "1", "6", "0", "0" >>,
      t1800 |-> << "1", "8", "0", "0" >>,
      h0115 |-> << "0", "1", ":", "1", "5" >>,
      h0230 |-> << "0", "2", ":", "3", "0" >>,
      h0300 |-> << "0", "3", ":", "0", "0" >>,
      h0400 |-> << "0", "4", ":", "0", "0" >>,
      NRT |-> << "N", "R", "T" >>,
      d03Jan25 |-> << "0", "3", "J", "a", "n", "2", "5" >>,
      t0130 |-> << "0", "1", "3", "0" >>,
      t2200 |-> << "2", "2", "0", "0" >> ]

RawLines ==
    { Join(<< Tok.d01Jan25 >>),
      Join(<< Tok.d02Jan25 >>),
      Join(<< Tok.dDotted >>),
      << " ", " " >>,
      Join(<< HeaderA >>),
      Join(<< Tok.ATDO >>),
      Join(<< LO, Tok.HKG >>),
      Join(<< Tok.d05Jan25, Tok.SS50, Tok.t0600, Tok.t1400 >>),
      Join(<< Tok.SS50, SIN, Tok.t0600, Tok.t1400 >>),
      Join(<< Tok.STBY, Tok.HKG, Tok.t0600, Tok.h0230, Tok.h0300 >>),
      Join(<< Tok.SQ123, Tok.SIN_HKG >>),
      Join(<< Tok.d01Jan25, Tok.SQ123, Tok.SIN_HKG >>),
      Join(<< Tok.SQ123, Tok.SIN_HKG, Tok.t0900 >>),
      Join(<< Tok.SQ123, Tok.SIN_HKG, Tok.t0900, Tok.t1015 >>),
      Join(<< Tok.SQ123, Tok.SIN_HKG, Tok.t0900, Tok.t1015, Tok.t1130, Tok.h0115, Tok.h0230, Tok.h0300 >>),
      Join(<< Tok.SQ123, Tok.SIN_HKG, Tok.t0900, Tok.t1015, Tok.t1130, Tok.h0115, Tok.h0230, Tok.h0300, Tok.h0400 >>),
      Join(<< Tok.SQ124, Tok.HKG_SIN, Tok.t1800 >>),
      Join(<< Tok.SQ124, Tok.HKG_SIN, Tok.t1800, Tok.h0300 >>),
      Join(<< Tok.SQ124, Tok.HKG_SIN, Tok.t1600, Tok.t1800, Tok.h0230, Tok.h0300 >>) }

-----------------------------------------------------------------------------
(* parse_timesheet, one line at a time *)

NoCall == [called |-> FALSE]

\* the body of the loop over lines, with the filter of the list comprehension:
\* the locals after the iteration, the exception it raised, the call of _parse_row
ParseBody(date, ents, raw) ==
    LET skip == [date |-> date, entries |-> ents, raised |-> "none", row |-> NoCall]
        \* lines 66-67: the locals after _parse_row gave r
        AfterRow(d, line, prev, r) ==
            [date |-> d,
             entries |-> IF r.raised = "none" /\ r.value # NoRow
                         THEN Append(ents, r.value) ELSE ents,
             raised |-> r.raised,
             row |-> [called |-> TRUE, date |-> d, line |-> line, prev |-> prev,
                      raised |-> r.raised, value |-> r.value]]
        \* lines 61-67: the rest of the iteration once current_date is updated
        WithDate(d, line, prev) ==
            IF ~Truthy(d) THEN [skip EXCEPT !.date = d]
            ELSE AfterRow(d, line, prev, parse_row(d, line, prev))
        \* lines 56-67: the iteration given date_match.group(), or None for no match
        WithMatch(line, m) ==
            WithDate(IF m # None THEN RemoveSpaces(m) ELSE date, line,
                     IF ents # << >> THEN ents[Len(ents)] ELSE NoRow)
        \* the iteration on a stripped line; an empty line is filtered at line 48
        Stripped(line) ==
            IF line = << >> THEN skip ELSE WithMatch(line, date_pattern_search(line))
    IN  Stripped(Strip(raw))

RECURSIVE ParseFrom(_, _, _, _)
ParseFrom(lines, i, date, ents) ==
    LET Then(b) ==
            IF b.raised # "none" THEN [raised |-> b.raised, entries |-> << >>]
            ELSE ParseFrom(lines, i + 1, b.date, b.entries)
    IN  IF i > Len(lines) THEN [raised |-> "none", entries |-> ents]
        ELSE Then(ParseBody(date, ents, lines[i]))

\* parse_timesheet(text): [raised, entries]
parse_timesheet(lines) == ParseFrom(lines, 1, None, << >>)

-----------------------------------------------------------------------------
(* Entries as dicts.  A key the dict does not have carries the value Missing. *)
Missing == << "Missing" >>

\* e.get(k) on the value stored under k
Get(v) == IF v = Missing THEN None ELSE v
\* e.get(k, default)
GetOr(v, default) == IF v = Missing THEN default ELSE v

(* group_trips *)

\* GroupBody with the inbound flight closing the trip whether or not it has an
\* arrival time
GroupBody_CloseWithoutSta(ts, cur, e) ==
    LET same == [raised |-> "none", trips |-> ts, current |-> cur]
    IN  IF e.cls # "dict"
        THEN [same EXCEPT !.raised = "AttributeError"]       \* e.get
        ELSE
        LET duty == Get(e.duty_type)
            origin == Get(e.origin)
            destination == Get(e.destination)
        IN  IF Truthy(duty) /\ StartsWith(duty, << "S", "S" >>)
            THEN [same EXCEPT !.trips = (IF cur # << >> THEN Append(ts, cur) ELSE ts)
                                        \o << << e >> >>,
                              !.current = << >>]
            ELSE IF duty # FLY
            THEN same
            ELSE IF origin # SIN /\ destination = SIN /\ cur = << >>
            THEN [same EXCEPT !.trips = Append(ts, << e >>)]
            ELSE IF origin = SIN /\ cur = << >>
            THEN [same EXCEPT !.current = << e >>]
            ELSE IF cur # << >>
            THEN IF destination = SIN
                 THEN [same EXCEPT !.trips = Append(ts, Append(cur, e)),
                                   !.current = << >>]
                 ELSE [same EXCEPT !.current = Append(cur, e)]
            ELSE same

\* GroupBody with an entry that is neither standby nor a flight appended to the
\* open trip
GroupBody_AppendNonFlight(ts, cur, e) ==
    LET same == [raised |-> "none", trips |-> ts, current |-> cur]
    IN  IF e.cls # "dict"
        THEN [same EXCEPT !.raised = "AttributeError"]       \* e.get
        ELSE
        LET duty == Get(e.duty_type)
            origin == Get(e.origin)
            destination == Get(e.destination)
        IN  IF Truthy(duty) /\ StartsWith(duty, << "S", "S" >>)
            THEN [same EXCEPT !.trips = (IF cur # << >> THEN Append(ts, cur) ELSE ts)
                                        \o << << e >> >>,
                              !.current = << >>]
            ELSE IF duty # FLY
            THEN IF cur # << >> THEN [same EXCEPT !.current = Append(cur, e)] ELSE same
            ELSE IF origin # SIN /\ destination = SIN /\ cur = << >>
            THEN [same EXCEPT !.trips = Append(ts, << e >>)]
            ELSE IF origin = SIN /\ cur = << >>
            THEN [same EXCEPT !.current = << e >>]
            ELSE IF cur # << >>
            THEN IF destination = SIN /\ Truthy(Get(e.sta))
                 THEN [same EXCEPT !.trips = Append(ts, Append(cur, e)),
                                   !.current = << >>]
                 ELSE [same EXCEPT !.current = Append(cur, e)]
            ELSE same

\* GroupBody with the broken arrival emitted only when it has an arrival time
GroupBody_BrokenArrivalNeedsSta(ts, cur, e) ==
    LET same == [raised |-> "none", trips |-> ts, current |-> cur]
    IN  IF e.cls # "dict"
        THEN [same EXCEPT !.raised = "AttributeError"]       \* e.get
        ELSE
        LET duty == Get(e.duty_type)
            origin == Get(e.origin)
            destination == Get(e.destination)
        IN  IF Truthy(duty) /\ StartsWith(duty, << "S", "S" >>)
            THEN [same EXCEPT !.trips = (IF cur # << >> THEN Append(ts, cur) ELSE ts)
                                        \o << << e >> >>,
                              !.current = << >>]
            ELSE IF duty # FLY
            THEN same
            ELSE IF origin # SIN /\ destination = SIN /\ cur = << >> /\ Truthy(Get(e.sta))
            THEN [same EXCEPT !.trips = Append(ts, << e >>)]
            ELSE IF origin = SIN /\ cur = << >>
            THEN [same EXCEPT !.current = << e >>]
            ELSE IF cur # << >>
            THEN IF destination = SIN /\ Truthy(Get(e.sta))
                 THEN [same EXCEPT !.trips = Append(ts, Append(cur, e)),
                                   !.current = << >>]
                 ELSE [same EXCEPT !.current = Append(cur, e)]
            ELSE same

\* the body that writes an arrival date into the entry that closes a trip
GroupBody_StampsArrival(ts, cur, e) ==
    LET same == [raised |-> "none", trips |-> ts, current |-> cur]
    IN  IF e.cls # "dict"
        THEN [same EXCEPT !.raised = "AttributeError"]       \* e.get
        ELSE
        LET duty == Get(e.duty_type)
            origin == Get(e.origin)
            destination == Get(e.destination)
        IN  IF Truthy(duty) /\ StartsWith(duty, << "S", "S" >>)
            THEN [same EXCEPT !.trips = (IF cur # << >> THEN Append(ts, cur) ELSE ts)
                                        \o << << e >> >>,
                              !.current = << >>]
            ELSE IF duty # FLY
            THEN same
            ELSE IF origin # SIN /\ destination = SIN /\ cur = << >>
            THEN [same EXCEPT !.trips = Append(ts, << e >>)]
            ELSE IF origin = SIN /\ cur = << >>
            THEN [same EXCEPT !.current = << e >>]
            ELSE IF cur # << >>
            THEN IF destination = SIN /\ Truthy(Get(e.sta))
                 THEN [same EXCEPT !.trips = Append(ts, Append(cur,
                                                 [e EXCEPT !.arrival_date = e.start_date])),
                                   !.current = << >>]
                 ELSE [same EXCEPT !.current = Append(cur, e)]
            ELSE same

\* the body of "for e in entries": the locals after it, or the exception it raises
GroupBody(ts, cur, e) ==
    LET same == [raised |-> "none", trips |-> ts, current |-> cur]
    IN  IF e.cls # "dict"
        THEN [same EXCEPT !.raised = "AttributeError"]       \* e.get
        ELSE
        LET duty == Get(e.duty_type)
            origin == Get(e.origin)
            destination == Get(e.destination)
        IN  IF Truthy(duty) /\ StartsWith(duty, << "S", "S" >>)
            THEN [same EXCEPT !.trips = (IF cur # << >> THEN Append(ts, cur) ELSE ts)
                                        \o << << e >> >>,
                              !.current = << >>]
            ELSE IF duty # FLY
            THEN same
            ELSE IF origin # SIN /\ destination = SIN /\ cur = << >>
            THEN [same EXCEPT !.trips = Append(ts, << e >>)]
            ELSE IF origin = SIN /\ cur = << >>
            THEN [same EXCEPT !.current = << e >>]
            ELSE IF cur # << >>
            THEN IF destination = SIN /\ Truthy(Get(e.sta))
                 THEN [same EXCEPT !.trips = Append(ts, Append(cur, e)),
                                   !.current = << >>]
                 ELSE [same EXCEPT !.current = Append(cur, e)]
            ELSE same

\* the statements after the loop: the value group_trips returns
GroupFinish(ts, cur) == IF cur # << >> THEN Append(ts, cur) ELSE ts

RECURSIVE GroupFrom(_, _, _, _)
GroupFrom(es, i, ts, cur) ==
    LET Then(b) ==
            IF b.raised # "none" THEN [raised |-> b.raised, value |-> << >>]
            ELSE GroupFrom(es, i + 1, b.trips, b.current)
    IN  IF i > Len(es) THEN [raised |-> "none", value |-> GroupFinish(ts, cur)]
        ELSE Then(GroupBody(ts, cur, es[i]))

\* group_trips(entries): [raised, value]
group_trips(es) == GroupFrom(es, 1, << >>, << >>)

-----------------------------------------------------------------------------
(* Dates: datetime.strptime(s, "%d%b%y") and strftime *)
DigitSeq == << "0", "1", "2", "3", "4", "5", "6", "7", "8", "9" >>
UpperSeq == << "A", "B", "C", "D", "E", "F", "G", "H", "I", "J", "K", "L", "M", "N", "O", "P", "Q", "R", "S", "T", "U", "V", "W", "X", "Y", "Z" >>
LowerSeq == << "a", "b", "c", "d", "e", "f", "g", "h", "i", "j", "k", "l", "m", "n", "o", "p", "q", "r", "s", "t", "u", "v", "w", "x", "y", "z" >>

\* calendar.month_abbr[1..12]
MonthAbbr ==
    << << "J", "a", "n" >>,
       << "F", "e", "b" >>,
       << "M", "a", "r" >>,
       << "A", "p", "r" >>,
       << "M", "a", "y" >>,
       << "J", "u", "n" >>,
       << "J", "u", "l" >>,
       << "A", "u", "g" >>,
       << "S", "e", "p" >>,
       << "O", "c", "t" >>,
       << "N", "o", "v" >>,
       << "D", "e", "c" >> >>

\* calendar.month_name[1..12], upper-cased
MonthNameUpper ==
    << << "J", "A", "N", "U", "A", "R", "Y" >>,
       << "F", "E", "B", "R", "U", "A", "R", "Y" >>,
       << "M", "A", "R", "C", "H" >>,
       << "A", "P", "R", "I", "L" >>,
       << "M", "A", "Y" >>,
       << "J", "U", "N", "E" >>,
       << "J", "U", "L", "Y" >>,
       << "A", "U", "G", "U", "S", "T" >>,
       << "S", "E", "P", "T", "E", "M", "B", "E", "R" >>,
       << "O", "C", "T", "O", "B", "E", "R" >>,
       << "N", "O", "V", "E", "M", "B", "E", "R" >>,
       << "D", "E", "C", "E", "M", "B", "E", "R" >> >>

DigitVal(c) == (CHOOSE k \in 1..10 : DigitSeq[k] = c) - 1
ToLowerChar(c) == IF c \in Upper THEN LowerSeq[CHOOSE k \in 1..26 : UpperSeq[k] = c] ELSE c
ToLower(s) == [i \in 1..Len(s) |-> ToLowerChar(s[i])]

Pad2(n) == << DigitSeq[(n \div 10) + 1], DigitSeq[(n % 10) + 1] >>
Pad4(n) == Pad2(n \div 100) \o Pad2(n % 100)

IsLeap(y) == (y % 4 = 0 /\ y % 100 # 0) \/ y % 400 = 0
DaysInMonth(y, m) ==
    IF m = 2 THEN (IF IsLeap(y) THEN 29 ELSE 28)
    ELSE IF m \in {4, 6, 9, 11} THEN 30 ELSE 31

\* the month whose abbreviation is t, compared without case, or 0
MonthOf(t) ==
    IF \E m \in 1..12 : ToLower(MonthAbbr[m]) = ToLower(t)
    THEN CHOOSE m \in 1..12 : ToLower(MonthAbbr[m]) = ToLower(t)
    ELSE 0

\* %y: 69..99 are 1969..1999, 00..68 are 2000..2068
YearOf(yy) == IF yy <= 68 THEN 2000 + yy ELSE 1900 + yy

BadDate(x) == [raised |-> x, y |-> 0, m |-> 0, d |-> 0]

\* the day, month and year fields strptime finds in s; day is one digit, two
\* digits or a space and a digit, and nothing may follow the year
DateFields(s) ==
    LET n == Len(s)
        dlen == n - 5
    IN  IF /\ dlen \in {1, 2}
           /\ Is(Digit, s, n) /\ Is(Digit, s, n - 1)
           /\ \A k \in (dlen + 1)..(dlen + 3) : Is(Alpha, s, k)
           /\ Is(Digit, s, dlen)
           /\ dlen = 2 => (Is(Digit, s, 1) \/ IsChar(s, 1, " "))
        THEN [ok |-> TRUE,
              d |-> IF dlen = 1 THEN DigitVal(s[1])
                    ELSE IF s[1] = " " THEN DigitVal(s[2])
                    ELSE 10 * DigitVal(s[1]) + DigitVal(s[2]),
              m |-> MonthOf(SubSeq(s, dlen + 1, dlen + 3)),
              yy |-> 10 * DigitVal(s[n - 1]) + DigitVal(s[n])]
        ELSE [ok |-> FALSE, d |-> 0, m |-> 0, yy |-> 0]

\* _parse_date_str(s): [raised, y, m, d]
parse_date_str(s) ==
    LET OfFields(f) ==
            IF /\ f.ok /\ f.m # 0
               /\ f.d >= 1 /\ f.d <= DaysInMonth(YearOf(f.yy), f.m)
            THEN [raised |-> "none", y |-> YearOf(f.yy), m |-> f.m, d |-> f.d]
            ELSE BadDate("ValueError")
    IN  IF s = None THEN BadDate("TypeError") ELSE OfFields(DateFields(s))

\* date.strftime("%d%b"), date.strftime("%d%b%y")
FormatDayMonth(dt) == Pad2(dt.d) \o MonthAbbr[dt.m]
FormatDayMonthYear(dt) == Pad2(dt.d) \o MonthAbbr[dt.m] \o Pad2(dt.y % 100)

-----------------------------------------------------------------------------
(* trips_to_message *)
NoTripsFound == << "N", "o", " ", "t", "r", "i", "p", "s", " ", "f", "o", "u", "n", "d", "." >>
FlightsFor == << "F", "l", "i", "g", "h", "t", "s", " ", "f", "o", "r", " ", "*" >>
Sep == << " ", "|", " " >>
Dash == << " ", "-", " " >>
NoneText == << "N", "o", "n", "e" >>

\* str(v) inside an f-string
Str(v) == IF v = None THEN NoneText ELSE v

\* "\n".join(lines)
RECURSIVE JoinLines(_)
JoinLines(lines) == IF lines = << >> THEN << >>
                    ELSE IF Len(lines) = 1 THEN lines[1]
                    ELSE lines[1] \o << "\n" >> \o JoinLines(Tail(lines))

\* e[k] on the value stored under k, then _parse_date_str
DateOfKey(v) == IF v = Missing THEN BadDate("KeyError") ELSE parse_date_str(v)

\* [e for e in trip if e.get("duty_type") == "FLY"]
FlyOf(trip) == SelectSeq(trip, LAMBDA e : Get(e.duty_type) = FLY)

\* _trip_end_date(trip) for a trip with a flight: [raised, value]
trip_end_date(trip) ==
    LET \* line 297: the date formatted, or the exception _parse_date_str raised
        Text(dt) ==
            IF dt.raised # "none" THEN [raised |-> dt.raised, value |-> None]
            ELSE [raised |-> "none", value |-> FormatDayMonthYear(dt)]
        \* lines 294-297, given the last flight of the trip
        OfLast(last) ==
            IF last.start_date = Missing THEN [raised |-> "KeyError", value |-> None]
            ELSE Text(parse_date_str(GetOr(last.arrival_date, last.start_date)))
        Last(fly) == OfLast(fly[Len(fly)])
    IN  Last(FlyOf(trip))

\* next((e for e in fly if e[k] == "SIN"), None) scanning the indices in the
\* order idx: [raised, found, e]
RECURSIVE NextSIN(_, _, _)
NextSIN(fly, idx, key) ==
    IF idx = << >> THEN [raised |-> "none", found |-> FALSE, e |-> NoRow]
    ELSE LET e == fly[Head(idx)]
             v == IF key = "origin" THEN e.origin ELSE e.destination
         IN  IF v = Missing THEN [raised |-> "KeyError", found |-> FALSE, e |-> NoRow]
             ELSE IF v = SIN THEN [raised |-> "none", found |-> TRUE, e |-> e]
             ELSE NextSIN(fly, Tail(idx), key)

NoLine(x) == [raised |-> x, lines |-> << >>]
OneLine(l) == [raised |-> "none", lines |-> << l >>]

\* the body of "for trip in trips" for a trip with a flight, after start is known
FlightTripLine(trip, start) ==
    LET \* lines 345-350: the line of a trip with an outbound and an inbound leg
        RoundTrip(end, outbound, inbound) ==
            IF outbound.raised # "none" THEN NoLine(outbound.raised)
            ELSE IF inbound.raised # "none" THEN NoLine(inbound.raised)
            ELSE IF outbound.found /\ inbound.found
            THEN OneLine(start \o Dash \o end \o Sep \o Str(outbound.e.destination) \o Sep
                         \o Str(GetOr(outbound.e.rpt, << "-" >>)) \o << " ", "(" >>
                         \o Str(GetOr(outbound.e.flight_number, << >>)) \o << ")" >> \o Sep
                         \o Str(GetOr(inbound.e.sta, << "-" >>)) \o << " ", "(" >>
                         \o Str(GetOr(inbound.e.flight_number, << >>)) \o << ")" >>)
            ELSE NoLine("none")
        \* lines 333-350, given the first flight and the formatted end date
        Line(fly, first, end) ==
            IF first.origin = Missing \/ (first.origin # SIN /\ first.destination = Missing)
            THEN NoLine("KeyError")
            ELSE IF first.origin # SIN /\ first.destination = SIN
            THEN IF first.sector = Missing THEN NoLine("KeyError")
                 ELSE OneLine(start \o Dash \o end \o Sep \o Str(first.sector) \o Sep
                              \o << "-" >> \o Sep
                              \o Str(GetOr(first.sta, << "-" >>)) \o << " ", "(" >>
                              \o Str(GetOr(first.flight_number, << >>)) \o << ")" >>)
            ELSE RoundTrip(end,
                           NextSIN(fly, [i \in 1..Len(fly) |-> i], "origin"),
                           NextSIN(fly, [i \in 1..Len(fly) |-> Len(fly) + 1 - i],
                                   "destination"))
        \* line 331, given the date _parse_date_str makes of the end date text
        WithEnd(fly, enddt) ==
            IF enddt.raised # "none" THEN NoLine(enddt.raised)
            ELSE Line(fly, fly[1], FormatDayMonth(enddt))
        \* line 331, given what _trip_end_date returned
        From(fly, te) ==
            IF te.raised # "none" THEN NoLine(te.raised)
            ELSE WithEnd(fly, parse_date_str(te.value))
    IN  From(FlyOf(trip), trip_end_date(trip))

\* the body of "for trip in trips": the lines it appends, or the exception
TripLine(trip) ==
    LET \* lines 317-321: the line of a standby trip
        Standby(e0, start, enddt) ==
            IF enddt.raised # "none" THEN NoLine(enddt.raised)
            ELSE OneLine(start \o Dash \o FormatDayMonth(enddt) \o Sep \o Str(e0.duty_type)
                         \o Sep \o Str(GetOr(e0.rpt, << "-" >>))
                         \o Sep \o Str(GetOr(e0.sta, << "-" >>)))
        \* lines 316-350, given start and e0.get("duty_type", "")
        Line(e0, start, duty) ==
            IF duty = None THEN NoLine("AttributeError")    \* None.startswith
            ELSE IF StartsWith(duty, << "S", "S" >>)
            THEN Standby(e0, start, DateOfKey(trip[Len(trip)].start_date))
            ELSE IF FlyOf(trip) = << >> THEN NoLine("none")
            ELSE FlightTripLine(trip, start)
        \* lines 313-350, given the date of e0["start_date"]
        Start(e0, startdt) ==
            IF startdt.raised # "none" THEN NoLine(startdt.raised)
            ELSE Line(e0, FormatDayMonth(startdt), GetOr(e0.duty_type, << >>))
        \* lines 312-350, given e0
        First(e0) ==
            IF e0.cls # "dict" THEN NoLine("TypeError")          \* e0["start_date"]
            ELSE Start(e0, DateOfKey(e0.start_date))
    IN  IF trip = << >> THEN NoLine("none") ELSE First(trip[1])

\* the loop "for trip in trips": [raised, lines]
RECURSIVE TripLines(_, _)
TripLines(ts, i) ==
    LET Then(l, rest) ==
            IF l.raised # "none" THEN l
            ELSE IF rest.raised # "none" THEN rest
            ELSE [raised |-> "none", lines |-> l.lines \o rest.lines]
    IN  IF i > Len(ts) THEN NoLine("none")
        ELSE Then(TripLine(ts[i]), TripLines(ts, i + 1))

\* trips_to_message(trips): [raised, value]
trips_to_message(ts) ==
    LET \* line 307: the header line
        Header(first_date) ==
            FlightsFor \o MonthNameUpper[first_date.m] \o << " " >>
            \o Pad4(first_date.y) \o << "*", ":" >>
        \* lines 304-352, given the date of the first entry and the loop's lines
        Message(first_date, body) ==
            IF first_date.raised # "none"
            THEN [raised |-> first_date.raised, value |-> << >>]
            ELSE IF body.raised # "none" THEN [raised |-> body.raised, value |-> << >>]
            ELSE [raised |-> "none",
                  value |-> JoinLines(<< Header(first_date) >> \o body.lines)]
    IN  IF ts = << >> \/ ts[1] = << >> THEN [raised |-> "none", value |-> NoTripsFound]
        ELSE IF ts[1][1].cls # "dict" THEN [raised |-> "TypeError", value |-> << >>]
        ELSE Message(DateOfKey(ts[1][1].start_date), TripLines(ts, 1))

-----------------------------------------------------------------------------
(* trips_to_sheet_rows and its helpers *)

\* x or "" for x: str | None
OrEmpty(x) == IF Truthy(x) THEN x ELSE << >>

\* _format_time(t)
format_time(t) ==
    IF ~Truthy(t) THEN << >>
    ELSE SubSeq(t, 1, IF Len(t) < 2 THEN Len(t) ELSE 2) \o << ":" >> \o SubSeq(t, 3, Len(t))

\* _split_duration(hhmm): [raised, h, m]; unpacking hhmm.split(":") into two
\* names raises ValueError unless hhmm holds exactly one colon
split_duration(hhmm) ==
    LET At(colons) ==
            IF Cardinality(colons) # 1 THEN [raised |-> "ValueError", h |-> << >>, m |-> << >>]
            ELSE [raised |-> "none",
                  h |-> SubSeq(hhmm, 1, (CHOOSE i \in colons : TRUE) - 1),
                  m |-> SubSeq(hhmm, (CHOOSE i \in colons : TRUE) + 1, Len(hhmm))]
    IN  IF ~Truthy(hhmm) \/ ~Contains(hhmm, << ":" >>)
        THEN [raised |-> "none", h |-> << >>, m |-> << >>]
        ELSE At({ i \in 1..Len(hhmm) : hhmm[i] = ":" })

\* whether int(s) returns for a text s of digits and spaces around them
\* (signs and underscores do not occur in the texts of the model)
IsInt(s) == Strip(s) # << >> /\ \A i \in 1..Len(Strip(s)) : Strip(s)[i] \in Digit

\* int(s) when IsInt(s)
RECURSIVE IntOf(_)
IntOf(s) ==
    IF Strip(s) = << >> THEN 0
    ELSE 10 * IntOf(SubSeq(Strip(s), 1, Len(Strip(s)) - 1)) + DigitVal(Strip(s)[Len(Strip(s))])

\* str(n) for a natural number n
RECURSIVE NatText(_)
NatText(n) == IF n < 10 THEN << DigitSeq[n + 1] >>
              ELSE NatText(n \div 10) \o << DigitSeq[(n % 10) + 1] >>

\* _decimal_hours(h, m): [raised, value]; value is "" or the float
\* round(int(h) + int(m)/60, 2), held as the text str() gives for it
decimal_hours(h, m) ==
    LET \* the float with the given number of hundredths
        Float(n) ==
            NatText(n \div 100) \o << "." >>
            \o (IF n % 10 = 0 THEN << DigitSeq[((n % 100) \div 10) + 1] >> ELSE Pad2(n % 100))
    IN  IF h = << >> \/ m = << >> THEN [raised |-> "none", value |-> << >>]
        ELSE IF ~IsInt(h) \/ ~IsInt(m) THEN [raised |-> "ValueError", value |-> << >>]
        ELSE [raised |-> "none",
              value |-> Float(100 * IntOf(h) + ((10 * IntOf(m) + 3) \div 6))]

\* _is_overnight(entry): [raised, value]
is_overnight(e) ==
    IF Truthy(Get(e.rpt)) /\ Truthy(Get(e.sta))
    THEN IF IsInt(Get(e.sta)) /\ IsInt(Get(e.rpt))
         THEN [raised |-> "none", value |-> IntOf(Get(e.sta)) < IntOf(Get(e.rpt))]
         ELSE [raised |-> "ValueError", value |-> FALSE]
    ELSE [raised |-> "none", value |-> FALSE]

\* date.toordinal()
Ordinal(dt) ==
    LET y == dt.y - 1
        RECURSIVE Before(_)
        Before(m) == IF m = 1 THEN 0 ELSE Before(m - 1) + DaysInMonth(dt.y, m - 1)
    IN  365 * y + (y \div 4) - (y \div 100) + (y \div 400) + Before(dt.m) + dt.d

\* d + datetime.timedelta(days=1)
NextDay(dt) ==
    IF dt.d < DaysInMonth(dt.y, dt.m) THEN [dt EXCEPT !.d = dt.d + 1]
    ELSE IF dt.m < 12 THEN [dt EXCEPT !.m = dt.m + 1, !.d = 1]
    ELSE [dt EXCEPT !.y = dt.y + 1, !.m = 1, !.d = 1]

\* [start + timedelta(days=i) for i in range(n)]
RECURSIVE DatesFrom(_, _)
DatesFrom(dt, n) == IF n <= 0 THEN << >> ELSE << dt >> \o DatesFrom(NextDay(dt), n - 1)

\* the date with a two-digit year, as "%m/%d/%y" gives it
SheetDate_TwoDigitYear(dt) == Pad2(dt.m) \o << "/" >> \o Pad2(dt.d) \o << "/" >> \o Pad2(dt.y % 100)

\* d.strftime("%m/%d/%Y")
SheetDate(dt) == Pad2(dt.m) \o << "/" >> \o Pad2(dt.d) \o << "/" >> \o Pad4(dt.y)

\* the day types of column D
Layover == << "L", "a", "y", "o", "v", "e", "r" >>
Turnaround == << "T", "u", "r", "n", "a", "r", "o", "u", "n", "d" >>

\* one iteration of "for d in all_dates" (lines 433-545), given the dates
\* added so far: [raised, rows, added]
SheetDay(fly, d, turnaround, station, added) ==
    LET E == << >>
        Blank == << E, E, E, E, E >>
        Out(rs, dates) == [raised |-> "none", rows |-> rs, added |-> added \cup dates]
        Fails == [raised |-> "ValueError", rows |-> << >>, added |-> added]
        \* fly_by_date.get(d, [])
        Today == SelectSeq(fly, LAMBDA e : parse_date_str(e.start_date) = d)
        \* _split_duration of duty_time and of flight_time
        Durs(e) == << split_duration(Get(e.duty_time)), split_duration(Get(e.flight_time)) >>
        DursRaised(du) == du[1].raised # "none" \/ du[2].raised # "none"
        \* the columns I..M
        Cols(du, dec) == << du[1].h, du[1].m, dec.value, du[2].h, du[2].m >>
        Dec(du) == decimal_hours(du[1].h, du[1].m)
        \* lines 438-462: the row of one flight of a turnaround day
        TurnRow(e, dep, du) ==
            IF DursRaised(du) \/ Dec(du).raised # "none" THEN Fails
            ELSE Out(<< << SheetDate(d), dep, OrEmpty(Get(e.destination)), Turnaround >>
                        \o (IF dep = SIN
                            THEN << format_time(Get(e.rpt)), format_time(Get(e.sta)), E, E >>
                            ELSE << E, E, format_time(Get(e.std)), format_time(Get(e.sta)) >>)
                        \o Cols(du, Dec(du)) >>,
                     { SheetDate(d) })
        TurnRows(today) ==
            [i \in 1..Len(today) |->
                 TurnRow(today[i], OrEmpty(Get(today[i].origin)), Durs(today[i]))]
        TurnDay(rs) ==
            IF \E i \in 1..Len(rs) : rs[i].raised # "none" THEN Fails
            ELSE Out([i \in 1..Len(rs) |-> rs[i].rows[1]], { SheetDate(d) })
        \* lines 473-506: the first flight of the day leaves SIN
        Outbound(dep, arr, rpt, sta, du, ov) ==
            IF ov.raised # "none" THEN Fails
            ELSE IF ov.value
            THEN IF Dec(du).raised # "none" THEN Fails
                 ELSE Out(<< << SheetDate(d), dep, arr, Layover, rpt, << "-" >>, E, E >>
                                \o Blank,
                             << SheetDate(NextDay(d)), E, arr, Layover, E, sta, E, E >>
                                \o Cols(du, Dec(du)) >>,
                          { SheetDate(d), SheetDate(NextDay(d)) })
            ELSE Out(<< << SheetDate(d), dep, arr, Layover, rpt, sta, E, E >> \o Blank >>,
                     { SheetDate(d) })
        \* lines 508-534: the first flight of the day arrives at SIN
        Inbound(dep, arr, rpt, sta, du, ov) ==
            IF ov.raised # "none" \/ Dec(du).raised # "none" THEN Fails
            ELSE IF ov.value
            THEN Out(<< << SheetDate(d), E, station, Layover, E, E, rpt, E >>
                           \o Cols(du, Dec(du)),
                        << SheetDate(NextDay(d)), dep, arr, Layover, E, << "-" >>, E, sta >>
                           \o Blank >>,
                     { SheetDate(d), SheetDate(NextDay(d)) })
            ELSE Out(<< << SheetDate(d), dep, arr, Layover, E, E, rpt, sta >>
                           \o Cols(du, Dec(du)) >>,
                     { SheetDate(d) })
        \* lines 464-534: only entries_today[0] is rendered
        FlightDay(e, dep, arr, du) ==
            IF DursRaised(du) THEN Fails
            ELSE IF dep = SIN
            THEN Outbound(dep, arr, format_time(Get(e.rpt)), format_time(Get(e.sta)), du,
                          is_overnight(e))
            ELSE IF arr = SIN
            THEN Inbound(dep, arr, format_time(Get(e.rpt)), format_time(Get(e.sta)), du,
                         is_overnight(e))
            ELSE Out(<< >>, { })
        \* lines 536-545: a day without a flight
        FreeDay ==
            IF SheetDate(d) \in added THEN Out(<< >>, { })
            ELSE Out(<< << SheetDate(d), E, station, Layover, E, E, E, E >> \o Blank >>, { })
        Day(today) ==
            IF turnaround /\ today # << >> THEN TurnDay(TurnRows(today))
            ELSE IF today # << >>
            THEN FlightDay(today[1], OrEmpty(Get(today[1].origin)),
                           OrEmpty(Get(today[1].destination)), Durs(today[1]))
            ELSE FreeDay
    IN  Day(Today)

\* the loop "for d in all_dates" from the i-th date on: [raised, rows]
RECURSIVE SheetDays(_, _, _, _, _, _)
SheetDays(fly, dates, i, turnaround, station, added) ==
    LET Then(day, rest) ==
            IF day.raised # "none" \/ rest.raised # "none"
            THEN [raised |-> "ValueError", rows |-> << >>]
            ELSE [raised |-> "none", rows |-> day.rows \o rest.rows]
        From(day) ==
            IF day.raised # "none" THEN [raised |-> day.raised, rows |-> << >>]
            ELSE Then(day, SheetDays(fly, dates, i + 1, turnaround, station, day.added))
    IN  IF i > Len(dates) THEN [raised |-> "none", rows |-> << >>]
        ELSE From(SheetDay(fly, dates[i], turnaround, station, added))

\* lines 547-587: the columns I..M of the trip's rows are wiped, then filled
\* on the first row and on the last row whose column C is the destination of
\* the last flight: [raised, rows]
SheetFill(fly, rs) ==
    LET E == << >>
        Raise(x) == [raised |-> x, rows |-> << >>]
        Durs(e) == << split_duration(Get(e.duty_time)), split_duration(Get(e.flight_time)) >>
        DursRaised(du) == du[1].raised # "none" \/ du[2].raised # "none"
        Dec(du) == decimal_hours(du[1].h, du[1].m)
        Put(r, du) == SubSeq(r, 1, 8) \o << du[1].h, du[1].m, Dec(du).value, du[2].h, du[2].m >>
        Wiped == [i \in 1..Len(rs) |-> SubSeq(rs[i], 1, 8) \o << E, E, E, E, E >>]
        \* lines 577-587, given the rows that hold the arrival airport
        Last(ws, du, found) ==
            IF found = { } THEN [raised |-> "none", rows |-> ws]
            ELSE IF Dec(du).raised # "none" THEN Raise("ValueError")
            ELSE [raised |-> "none",
                  rows |-> [ws EXCEPT ![CHOOSE k \in found : \A j \in found : j <= k] =
                                          Put(@, du)]]
        \* lines 572-587, given the rows after the first row is filled
        Arrival(ws, last, du) ==
            IF DursRaised(du) THEN Raise("ValueError")
            ELSE Last(ws, du, { i \in 1..Len(ws) : ws[i][3] = Get(last.destination) })
        \* lines 559-587
        First(ws, du) ==
            IF DursRaised(du) \/ Dec(du).raised # "none" THEN Raise("ValueError")
            ELSE Arrival([ws EXCEPT ![1] = Put(@, du)], fly[Len(fly)], Durs(fly[Len(fly)]))
    IN  IF rs = << >> THEN [raised |-> "none", rows |-> << >>]
        ELSE First(Wiped, Durs(fly[1]))

\* the body of "for trip in trips": the rows it appends, or the exception
SheetTrip(trip) ==
    LET E == << >>
        Raise(x) == [raised |-> x, rows |-> << >>]
        \* lines 373-394: a broken inbound flight from the previous month
        BrokenRow(e, dt, duty, flight) ==
            IF dt.raised # "none" THEN Raise(dt.raised)
            ELSE IF duty.raised # "none" \/ flight.raised # "none"
                    \/ decimal_hours(duty.h, duty.m).raised # "none"
            THEN Raise("ValueError")
            ELSE [raised |-> "none",
                  rows |-> << << SheetDate(dt), OrEmpty(Get(e.origin)),
                                 OrEmpty(Get(e.destination)), Layover,
                                 E, << "-" >>, E, format_time(Get(e.sta)),
                                 duty.h, duty.m, decimal_hours(duty.h, duty.m).value,
                                 flight.h, flight.m >> >>]
        \* lines 430-587
        Days(fly, start, end, turnaround, station) ==
            LET Filled(days) == IF days.raised # "none" THEN days
                                ELSE SheetFill(fly, days.rows)
            IN  Filled(SheetDays(fly, DatesFrom(start, Ordinal(end) - Ordinal(start) + 1), 1,
                                 turnaround, station, { }))
        \* lines 419-423: the first exception of _parse_date_str(e["start_date"])
        ByDate(fly) ==
            LET Bad == { i \in 1..Len(fly) : DateOfKey(fly[i].start_date).raised # "none" }
            IN  IF Bad = { } THEN "none"
                ELSE DateOfKey(fly[CHOOSE i \in Bad : \A j \in Bad : i <= j].start_date).raised
        \* lines 410-587, given both dates
        Station(fly, start, end) ==
            IF fly[1].origin = Missing \/ (fly[1].origin = SIN /\ fly[1].destination = Missing)
            THEN Raise("KeyError")
            ELSE IF ByDate(fly) # "none" THEN Raise(ByDate(fly))
            ELSE Days(fly, start, end,
                      Len(fly) = 2 /\ fly[1].start_date = fly[2].start_date,
                      IF fly[1].origin = SIN THEN fly[1].destination ELSE fly[1].origin)
        \* lines 399-408, given the date of last["start_date"]
        End(fly, start, last, end) ==
            IF end.raised # "none" THEN Raise(end.raised)
            ELSE IF ~Truthy(Get(last.arrival_date)) THEN Station(fly, start, end)
            ELSE IF parse_date_str(last.arrival_date).raised # "none"
            THEN Raise(parse_date_str(last.arrival_date).raised)
            ELSE IF Get(last.destination) = SIN /\ is_overnight(last).raised # "none"
            THEN Raise("ValueError")
            ELSE Station(fly, start, parse_date_str(last.arrival_date))
        \* lines 396-587, given the date of fly[0]["start_date"]
        Start(fly, start) ==
            IF start.raised # "none" THEN Raise(start.raised)
            ELSE End(fly, start, fly[Len(fly)], DateOfKey(fly[Len(fly)].start_date))
        Of(fly) ==
            IF fly = << >> THEN Raise("none")
            ELSE IF /\ Len(fly) = 1 /\ Get(fly[1].origin) # SIN
                    /\ Get(fly[1].destination) = SIN
            THEN BrokenRow(fly[1], DateOfKey(fly[1].start_date),
                           split_duration(Get(fly[1].duty_time)),
                           split_duration(Get(fly[1].flight_time)))
            ELSE Start(fly, DateOfKey(fly[1].start_date))
    IN  IF \E i \in 1..Len(trip) : trip[i].cls # "dict"
        THEN Raise("AttributeError")                          \* e.get
        ELSE Of(FlyOf(trip))

\* the loop "for trip in trips" from the i-th trip on: [raised, rows]
RECURSIVE SheetRowsFrom(_, _)
SheetRowsFrom(ts, i) ==
    LET Then(t, rest) ==
            IF t.raised # "none" THEN t
            ELSE IF rest.raised # "none" THEN rest
            ELSE [raised |-> "none", rows |-> t.rows \o rest.rows]
    IN  IF i > Len(ts) THEN [raised |-> "none", rows |-> << >>]
        ELSE Then(SheetTrip(ts[i]), SheetRowsFrom(ts, i + 1))

\* trips_to_sheet_rows(trips): [raised, value]
trips_to_sheet_rows(ts) ==
    LET Result(r) == [raised |-> r.raised,
                      value |-> IF r.raised = "none" THEN r.rows ELSE None]
    IN  Result(SheetRowsFrom(ts, 1))

-----------------------------------------------------------------------------
(* The dict entries handed to group_trips *)

DictEntry(id, start_date, flight_number, origin, destination, duty_type, rpt, sta) ==
    [ cls |-> "dict", id |-> id,
      start_date |-> start_date, arrival_date |-> None,
      flight_number |-> flight_number,
      sector |-> IF origin = None THEN None ELSE origin \o << "-" >> \o destination,
      origin |-> origin, destination |-> destination, duty_type |-> duty_type,
      rpt |-> rpt, std |-> None, sta |-> sta,
      flight_time |-> None, duty_time |-> None, fdp |-> None,
      raw_block |-> None ]

Sectors == { << SIN, Tok.HKG >>, << Tok.HKG, Tok.NRT >>, << Tok.HKG, SIN >>, << Tok.NRT, SIN >> }

\* the entries that can stand at position id of the input
DictEntries(id) ==
    { DictEntry(id, Tok.d01Jan25, Tok.SQ123, sec[1], sec[2], FLY, None, sta) :
          sec \in Sectors, sta \in { None, Tok.t1800 } }
    \cup { DictEntry(id, Tok.d01Jan25, None, None, None, duty, Tok.t0600, None) :
          duty \in { Tok.SS50, Tok.STBY, Tok.ATDO, LO } }

-----------------------------------------------------------------------------
(* Specification of parse_timesheet followed by group_trips and            *)
(* trips_to_message as telegram_webhook composes them                      *)

NoReply == [called |-> FALSE]

GroupIdle   == /\ gin = << >> /\ trips = << >> /\ current = << >>
               /\ gpc = "idle" /\ glast = NoCall
WebhookIdle == /\ PENDING_UPLOADS = << >> /\ sent = << >> /\ appended = << >>
               /\ last_update = NoCall /\ response = NoCall
ExportIdle  == merged = NoCall /\ sheet = NoCall
ParseIdle   == /\ text = << >> /\ current_date = None /\ entries = << >>
               /\ row = NoCall /\ ppc = "idle" /\ reply = NoReply

Init ==
    /\ text = << >> /\ current_date = None /\ entries = << >>
    /\ row = NoCall /\ ppc = "loop" /\ reply = NoReply
    /\ GroupIdle /\ WebhookIdle /\ ExportIdle

\* one iteration of "for line in lines" on the next line of the text
ParseLine ==
    /\ ppc = "loop"
    /\ Len(text) < MaxLines
    /\ \E raw \in RawLines :
       \E b \in { ParseBody(current_date, entries, raw) } :
             /\ text' = Append(text, raw)
             /\ row' = b.row
             /\ IF b.raised = "none"
                THEN /\ current_date' = b.date
                     /\ entries' = b.entries
                     /\ ppc' = "loop"
                ELSE /\ ppc' = b.raised
                     /\ UNCHANGED << current_date, entries >>
    /\ UNCHANGED << reply, groupVars, webhookVars, exportVars >>

\* the end of the text: parse_timesheet returns
ParseReturn ==
    /\ ppc = "loop"
    /\ ppc' = "parsed"
    /\ UNCHANGED << text, current_date, entries, row, reply, groupVars, webhookVars, exportVars >>

\* main.py: trips = group_trips(parsed["entries"]); reply_text = trips_to_message(trips)
Compose ==
    /\ ppc = "parsed"
    /\ LET OfMessage(m) ==
               [called |-> TRUE, stage |-> "trips_to_message",
                raised |-> m.raised, value |-> m.value]
           OfTrips(g) ==
               IF g.raised # "none"
               THEN [called |-> TRUE, stage |-> "group_trips",
                     raised |-> g.raised, value |-> << >>]
               ELSE OfMessage(trips_to_message(g.value))
       IN  reply' = OfTrips(group_trips(entries))
    /\ ppc' = "composed"
    /\ UNCHANGED << text, current_date, entries, row, groupVars, webhookVars, exportVars >>

Next == ParseLine \/ ParseReturn \/ Compose

Spec == Init /\ [][Next]_vars

-----------------------------------------------------------------------------
(* The continuation merge between parse_timesheet and group_trips.  No file *)
(* of the package defines it; it is modelled after the design document,     *)
(* section 4.2: a single left-to-right pass with a trailing accumulator.    *)

\* the pass from entry i on, kept being the entries kept so far
RECURSIVE MergeFrom(_, _, _)
MergeFrom(es, i, kept) ==
    LET \* e continues the last kept entry p, supplies only an arrival time
        \* and p lacks one
        Folds(p, e) ==
            /\ p.flight_number = e.flight_number /\ p.sector = e.sector
            /\ Truthy(e.sta) /\ ~Truthy(e.std)
            /\ ~Truthy(p.sta)
        Step(e) ==
            IF kept # << >> /\ Folds(kept[Len(kept)], e)
            THEN [kept EXCEPT ![Len(kept)] =
                      [@ EXCEPT !.sta = e.sta, !.arrival_date = e.start_date]]
            ELSE Append(kept, e)
    IN  IF i > Len(es) THEN kept ELSE MergeFrom(es, i + 1, Step(es[i]))

\* merge(entries)
merge(es) == MergeFrom(es, 1, << >>)

\* the merge run on the parsed entries, or run again on its own output
Merge ==
    /\ ppc \in { "parsed", "merged" }
    /\ merged.called => merged.runs < 2
    /\ \E x \in { IF merged.called THEN merged.value ELSE entries } :
           merged' = [called |-> TRUE,
                      runs |-> IF merged.called THEN merged.runs + 1 ELSE 1,
                      input |-> x, value |-> merge(x)]
    /\ ppc' = "merged"
    /\ UNCHANGED << text, current_date, entries, row, reply, sheet,
                    groupVars, webhookVars >>

NextMerge == ParseLine \/ ParseReturn \/ Merge

SpecMerge == Init /\ [][NextMerge]_vars

-----------------------------------------------------------------------------
(* Specification of group_trips on dict entries *)

InitGroup ==
    /\ gin = << >> /\ trips = << >> /\ current = << >>
    /\ gpc = "loop" /\ glast = NoCall
    /\ ParseIdle /\ WebhookIdle /\ ExportIdle

\* one iteration of "for e in entries" on the next entry of the input
GroupStep ==
    /\ gpc = "loop"
    /\ Len(gin) < MaxEntries
    /\ \E e \in DictEntries(Len(gin) + 1) :
       \E b \in { GroupBody(trips, current, e) } :
             /\ gin' = Append(gin, e)
             /\ glast' = [called |-> TRUE, e |-> e, trips |-> trips, current |-> current]
             /\ trips' = b.trips
             /\ current' = b.current
             /\ gpc' = IF b.raised = "none" THEN "loop" ELSE b.raised
    /\ UNCHANGED << parseVars, webhookVars, exportVars >>

\* the end of the input: the trip still open is emitted and group_trips returns
GroupReturn ==
    /\ gpc = "loop"
    /\ trips' = GroupFinish(trips, current)
    /\ gpc' = "done"
    /\ UNCHANGED << gin, current, glast, parseVars, webhookVars, exportVars >>

NextGroup == GroupStep \/ GroupReturn

SpecGroup == InitGroup /\ [][NextGroup]_vars

-----------------------------------------------------------------------------
(* Specification of trips_to_message and trips_to_sheet_rows on the trips  *)
(* of a roster                                                             *)

\* a flight entry with its times and durations; arrival_date is Missing when
\* the entry has no such key
SheetEntry(id, start_date, arrival_date, flight_number, origin, destination, rpt, std, sta, duty_time, flight_time) ==
    [ DictEntry(id, start_date, flight_number, origin, destination, FLY, rpt, sta)
          EXCEPT !.arrival_date = arrival_date, !.std = std,
                 !.duty_time = duty_time, !.flight_time = flight_time ]

\* the entries that can stand at position id of the roster
RenderEntries(id) ==
    { SheetEntry(id, Tok.d01Jan25, Missing, Tok.SQ123, SIN, Tok.HKG,
                 Tok.t0900, None, Tok.t1015, Tok.h0230, Tok.h0115),
      SheetEntry(id, Tok.d01Jan25, Missing, Tok.SQ123, SIN, Tok.HKG,
                 Tok.t2200, None, Tok.t0130, Tok.h0400, Tok.h0300),
      SheetEntry(id, Tok.d01Jan25, Missing, Tok.SQ124, Tok.HKG, SIN,
                 None, Tok.t1130, Tok.t1800, Tok.h0300, Tok.h0115),
      SheetEntry(id, Tok.d01Jan25, None, Tok.SQ124, Tok.HKG, SIN,
                 Tok.t1600, None, None, None, None),
      SheetEntry(id, Tok.d02Jan25, Missing, Tok.SQ124, Tok.HKG, SIN,
                 Tok.t1600, None, Tok.t1800, Tok.h0300, Tok.h0115),
      SheetEntry(id, Tok.d02Jan25, Tok.d03Jan25, Tok.SQ124, Tok.HKG, SIN,
                 Tok.t2200, None, Tok.t0130, Tok.h0400, Tok.h0300),
      SheetEntry(id, Tok.d02Jan25, Missing, Tok.SQ123, Tok.HKG, Tok.NRT,
                 Tok.t0900, None, Tok.t1400, Tok.h0400, Tok.h0300),
      SheetEntry(id, Tok.d05Jan25, Missing, Tok.SQ124, Tok.NRT, SIN,
                 Tok.t1400, None, Tok.t1800, Tok.h0400, None),
      SheetEntry(id, Tok.d05Jan25, Missing, Tok.SQ124, Tok.NRT, Tok.HKG,
                 Tok.t1400, None, Tok.t1800, Tok.h0300, Tok.h0115),
      SheetEntry(id, Tok.dDotted, Missing, Tok.SQ123, Tok.HKG, Tok.NRT,
                 Tok.t0900, None, Tok.t1400, Tok.h0400, Tok.h0300),
      SheetEntry(id, Tok.d02Jan25, Tok.dDotted, Tok.SQ124, Tok.HKG, SIN,
                 Tok.t2200, None, Tok.t0130, Tok.h0400, Tok.h0300),
      DictEntry(id, Tok.d01Jan25, None, None, None, Tok.SS50, Tok.t0600, Tok.t1400),
      DictEntry(id, Tok.d02Jan25, None, None, None, LO, None, None) }

InitRender ==
    /\ gin = << >> /\ trips = << >> /\ current = << >>
    /\ gpc = "roster" /\ glast = NoCall
    /\ ParseIdle /\ WebhookIdle /\ ExportIdle

\* the next entry of the roster
RosterEntry ==
    /\ gpc = "roster"
    /\ Len(gin) < MaxLegs
    /\ \E e \in RenderEntries(Len(gin) + 1) : gin' = Append(gin, e)
    /\ UNCHANGED << trips, current, gpc, glast, parseVars, webhookVars, exportVars >>

\* main.py line 111: the trips are those group_trips makes of the entries
GroupRoster ==
    /\ gpc = "roster"
    /\ \E g \in { group_trips(gin) } :
           /\ g.raised = "none"
           /\ trips' = g.value
    /\ gpc' = "grouped"
    /\ UNCHANGED << gin, current, glast, parseVars, webhookVars, exportVars >>

\* a caller hands the entries over as one trip
OneTrip ==
    /\ gpc = "roster"
    /\ gin # << >>
    /\ trips' = << gin >>
    /\ gpc' = "given"
    /\ UNCHANGED << gin, current, glast, parseVars, webhookVars, exportVars >>

\* trips_to_message(trips)
Message ==
    /\ gpc \in { "grouped", "given" }
    /\ reply = NoReply
    /\ \E m \in { trips_to_message(trips) } :
           reply' = [called |-> TRUE, stage |-> "trips_to_message",
                     raised |-> m.raised, value |-> m.value]
    /\ UNCHANGED << text, current_date, entries, row, ppc, groupVars, webhookVars, exportVars >>

\* trips_to_sheet_rows(trips)
SheetRows ==
    /\ gpc \in { "grouped", "given" }
    /\ sheet = NoCall
    /\ \E r \in { trips_to_sheet_rows(trips) } :
           sheet' = [called |-> TRUE, raised |-> r.raised, value |-> r.value]
    /\ UNCHANGED << merged, parseVars, groupVars, webhookVars >>

NextRender == RosterEntry \/ GroupRoster \/ OneTrip \/ Message \/ SheetRows

SpecRender == InitRender /\ [][NextRender]_vars

-----------------------------------------------------------------------------
(* main.py: telegram_webhook *)

\* the texts the bot sends, by name
PushQuestion == << "\n", "\n", "P", "u", "s", "h", " ", "t", "o", " ", "G", "o", "o", "g", "l", "e", " ", "S", "h", "e", "e", "t", "s", "?" >>

TRUSTED_CHAT_IDS == { 1 }     \* config.TRUSTED_CHAT_IDS, from the environment
ChatIds == { 1, 2 }           \* the chats updates come from
NoChat  == 0                  \* chat_id = None: the update has no message.chat.id

\* the texts ocr.extract_text_from_file returns, as lists of lines
OcrTexts ==
    { << >>,
      << Join(<< Tok.ATDO >>) >>,
      << Join(<< Tok.d01Jan25 >>), Join(<< Tok.SQ123, Tok.SIN_HKG, Tok.t0900, Tok.t1015 >>) >>,
      << Join(<< Tok.d05Jan25, Tok.SS50, Tok.t0600, Tok.t1400 >>) >> }

\* an update without the key
Absent == [present |-> FALSE]

Callbacks == { Absent }
             \cup { [present |-> TRUE, chat |-> c, data |-> d] :
                        c \in ChatIds, d \in { "CONFIRM_YES", "CONFIRM_NO", "OTHER" } }
Messages  == { Absent }
             \cup { [present |-> TRUE, chat |-> c, kind |-> k] :
                        c \in ChatIds,
                        k \in { "/start", "text", "photo", "document" } }

\* what the collaborators answer during one call: get_file_info, download_file,
\* extract_text_from_file and sheets.append_row; at most one of them fails,
\* since the handler returns at the first failure
EnvOk(t) == [file_info_ok |-> TRUE, download_ok |-> TRUE, ocr_text |-> t, append_ok |-> TRUE]
Envs == { EnvOk(t) : t \in OcrTexts }
        \cup { [EnvOk(<< >>) EXCEPT !.file_info_ok = FALSE],
               [EnvOk(<< >>) EXCEPT !.download_ok = FALSE],
               [EnvOk(<< >>) EXCEPT !.append_ok = FALSE] }

\* an update: the path it is posted to, its callback_query and message, and
\* the collaborators' answers
Updates ==
    { [path_ok |-> TRUE, callback |-> cb, message |-> m, env |-> v] :
          cb \in Callbacks, m \in Messages, v \in Envs }
    \cup { [path_ok |-> FALSE, callback |-> Absent, message |-> Absent,
            env |-> EnvOk(<< >>)] }

Ok == [status |-> "ok", exc |-> "none"]
Fail(x) == [status |-> "raised", exc |-> x]

Msg(chat, what, keyboard) == [chat_id |-> chat, text |-> what, keyboard |-> keyboard]

\* PENDING_UPLOADS.pop(chat_id, None): the dict afterwards
Pop(pending, chat) == [c \in (DOMAIN pending) \ { chat } |-> pending[c]]
\* PENDING_UPLOADS[chat_id] = v: the dict afterwards
Put(pending, chat, v) == [c \in (DOMAIN pending) \cup { chat } |->
                              IF c = chat THEN v ELSE pending[c]]

Outcome(pending, msgs, rows, resp) ==
    [pending |-> pending, sent |-> msgs, appended |-> rows, response |-> resp]

\* lines 95-135: from get_file_info to the confirmation question
ProcessFile(pending, u, chat_id) ==
    LET \* lines 112-135, given what trips_to_message returned
        Ask(m) ==
            IF m.raised # "none" THEN Outcome(pending, << >>, << >>, Fail(m.raised))
            ELSE Outcome(Put(pending, chat_id, [reply_text |-> m.value]),
                         << Msg(chat_id, m.value \o PushQuestion, TRUE) >>, << >>, Ok)
        \* lines 111-135, given what group_trips returned
        Grouped(g) ==
            IF g.raised # "none" THEN Outcome(pending, << >>, << >>, Fail(g.raised))
            ELSE Ask(trips_to_message(g.value))
        \* lines 110-135, given what parse_timesheet returned
        Parsed(p) ==
            IF p.raised # "none" THEN Outcome(pending, << >>, << >>, Fail(p.raised))
            ELSE Grouped(group_trips(p.entries))
    IN  IF ~u.env.file_info_ok
        THEN Outcome(pending, << Msg(chat_id, "Couldn't access file.", FALSE) >>, << >>, Ok)
        ELSE IF ~u.env.download_ok
        THEN Outcome(pending, << Msg(chat_id, "Download failed.", FALSE) >>, << >>, Ok)
        ELSE Parsed(parse_timesheet(u.env.ocr_text))

\* lines 64-93: the message handler, which the source nests in "if callback:"
MessageHandler(pending, u) ==
    LET msg == u.message
        chat_id == IF msg.present THEN msg.chat ELSE NoChat
        has_file == msg.present /\ msg.kind \in { "photo", "document" }
    IN  IF chat_id \notin TRUSTED_CHAT_IDS
        THEN Outcome(pending, << Msg(chat_id, "Access denied.", FALSE) >>, << >>, Ok)
        ELSE IF msg.kind = "/start"
        THEN Outcome(pending, << Msg(chat_id, "INSTRUCTION_TEXT", FALSE) >>, << >>, Ok)
        ELSE IF ~has_file
        THEN Outcome(pending, << Msg(chat_id, "INSTRUCTION_TEXT", FALSE) >>, << >>, Ok)
        ELSE ProcessFile(pending, u, chat_id)

\* the callback handler that removes the pending upload only once the append
\* has succeeded
CallbackHandler_KeepsOnFailure(pending, u) ==
    LET chat_id == u.callback.chat
        data == u.callback.data
    IN  IF chat_id \notin TRUSTED_CHAT_IDS
        THEN Outcome(pending, << >>, << >>, Ok)
        ELSE IF data = "CONFIRM_YES"
        THEN IF chat_id \notin DOMAIN pending
             THEN Outcome(pending, << Msg(chat_id, "No pending data.", FALSE) >>, << >>, Ok)
             ELSE IF u.env.append_ok
             THEN Outcome(Pop(pending, chat_id),
                          << Msg(chat_id, "Pushed to Google Sheets.", FALSE) >>,
                          << << "ts", chat_id, pending[chat_id].reply_text >> >>, Ok)
             ELSE Outcome(pending,
                          << Msg(chat_id, "Failed to push.", FALSE) >>, << >>, Ok)
        ELSE IF data = "CONFIRM_NO"
        THEN Outcome(Pop(pending, chat_id), << Msg(chat_id, "Cancelled.", FALSE) >>, << >>, Ok)
        ELSE MessageHandler(pending, u)

\* lines 25-59: the callback handler
CallbackHandler(pending, u) ==
    LET chat_id == u.callback.chat
        data == u.callback.data
    IN  IF chat_id \notin TRUSTED_CHAT_IDS
        THEN Outcome(pending, << >>, << >>, Ok)
        ELSE IF data = "CONFIRM_YES"
        THEN IF chat_id \notin DOMAIN pending
             THEN Outcome(pending, << Msg(chat_id, "No pending data.", FALSE) >>, << >>, Ok)
             ELSE IF u.env.append_ok
             THEN Outcome(Pop(pending, chat_id),
                          << Msg(chat_id, "Pushed to Google Sheets.", FALSE) >>,
                          << << "ts", chat_id, pending[chat_id].reply_text >> >>, Ok)
             ELSE Outcome(Pop(pending, chat_id),
                          << Msg(chat_id, "Failed to push.", FALSE) >>, << >>, Ok)
        ELSE IF data = "CONFIRM_NO"
        THEN Outcome(Pop(pending, chat_id), << Msg(chat_id, "Cancelled.", FALSE) >>, << >>, Ok)
        ELSE MessageHandler(pending, u)

\* telegram_webhook(webhook_path, request)
Handle(pending, u) ==
    IF ~u.path_ok THEN Outcome(pending, << >>, << >>, Fail("HTTPException404"))
    ELSE IF u.callback.present THEN CallbackHandler(pending, u)
    \* without a callback no statement has assigned file_id when line 95 reads it
    ELSE Outcome(pending, << >>, << >>, Fail("UnboundLocalError"))

InitWebhook ==
    /\ PENDING_UPLOADS = << >> /\ sent = << >> /\ appended = << >>
    /\ last_update = NoCall /\ response = NoCall
    /\ ParseIdle /\ GroupIdle /\ ExportIdle

\* one call of the webhook; sent, appended and response are what this call did
Webhook ==
    /\ \E u \in Updates :
       \E o \in { Handle(PENDING_UPLOADS, u) } :
             /\ PENDING_UPLOADS' = o.pending
             /\ sent' = o.sent
             /\ appended' = o.appended
             /\ response' = o.response
             /\ last_update' = [called |-> TRUE, update |-> u, pending |-> PENDING_UPLOADS]
    /\ UNCHANGED << parseVars, groupVars, exportVars >>

NextWebhook == Webhook

SpecWebhook == InitWebhook /\ [][NextWebhook]_vars

-----------------------------------------------------------------------------
(* Properties *)

\* the latest call of _parse_row returned an entry
RowReturned == row.called /\ row.raised = "none" /\ row.value # NoRow

\* the latest call of _parse_row was given a flight row: a line that is no
\* header, standby, off-duty or layover row and has a flight number and a sector
IsFlightLine(line) ==
    /\ ~Contains(line, HeaderA) /\ ~Contains(line, HeaderB)
    /\ standby_search(line) = None
    /\ off_duty_search(line) = None
    /\ ~layover_search(line)
    /\ flight_number_search(line) # None
    /\ sector_search(line) # << >>

OnFlightRow == row.called /\ IsFlightLine(row.line)

RowSame == same_flight_as_prev(row.prev, row.value.flight_number,
                               row.value.origin, row.value.destination)
RowTurn == is_turnaround(row.prev, row.value.flight_number,
                         row.value.origin, row.value.destination, row.date)

TimesAre(e, rpt, std, sta) == e.rpt = rpt /\ e.std = std /\ e.sta = sta

WellFormedDate(d) == d # Missing /\ parse_date_str(d).raised = "none"

\* C1: whenever parse_timesheet has produced at least one entry, all with
\* well-formed dates, group_trips on these entries followed by
\* trips_to_message on its trips returns a summary and no stage raises.
C1_StagesCompose ==
    ( /\ ppc = "composed"
      /\ entries # << >>
      /\ \A i \in 1..Len(entries) : WellFormedDate(entries[i].start_date) )
    => reply.raised = "none"

\* C2: an update from a trusted chat with a message and no callback_query
\* stores a pending upload for the chat and sends the summary with the Yes/No
\* keyboard when the message carries a photo or a document (and the file can
\* be fetched and its text has no entries to trip over), and sends the
\* instruction text when the message carries no file.
C2_UploadStoresPending ==
    ( /\ last_update.called
      /\ last_update.update.path_ok
      /\ ~last_update.update.callback.present
      /\ last_update.update.message.present
      /\ last_update.update.message.chat \in TRUSTED_CHAT_IDS )
    => LET u == last_update.update
           chat == u.message.chat
       IN  IF u.message.kind \in { "photo", "document" }
           THEN ( u.env.file_info_ok /\ u.env.download_ok
                  /\ parse_timesheet(u.env.ocr_text).raised = "none"
                  /\ parse_timesheet(u.env.ocr_text).entries = << >> )
                => /\ response = Ok
                   /\ chat \in DOMAIN PENDING_UPLOADS
                   /\ sent = << Msg(chat, PENDING_UPLOADS[chat].reply_text \o PushQuestion,
                                    TRUE) >>
           ELSE /\ response = Ok
                /\ sent = << Msg(chat, "INSTRUCTION_TEXT", FALSE) >>

\* a calendar-date token at position i: two digits, a three-letter month
\* abbreviation and two digits, each pair optionally separated by one
\* non-word character; the position just after it, or 0
CalendarDateEnd(s, i) ==
    LET b == IF IsNot(WordChar, s, i + 2) THEN i + 3 ELSE i + 2
    IN  IF DateEnd(s, i) # 0 /\ MonthOf(SubSeq(s, b, b + 2)) # 0 THEN DateEnd(s, i) ELSE 0

\* the calendar-date token of a line, without spaces, or None
CalendarDateOf(raw) ==
    LET s == Strip(raw)
        ends == [i \in 1..Len(s) |-> CalendarDateEnd(s, i)]
        p == FirstMatch(s, ends)
    IN  IF p = 0 THEN None ELSE RemoveSpaces(SubSeq(s, p, ends[p] - 1))

\* the date token of the last line of lines that carries a calendar date, or None
RECURSIVE NearestDate(_)
NearestDate(lines) ==
    IF lines = << >> THEN None
    ELSE IF CalendarDateOf(lines[Len(lines)]) # None THEN CalendarDateOf(lines[Len(lines)])
    ELSE NearestDate(SubSeq(lines, 1, Len(lines) - 1))

\* C3: the current date is always the date token of the nearest line read so
\* far that carries a calendar date (a line without one never changes it),
\* every entry gets that date as start_date, and no entry is produced before
\* the first calendar date.
C3_CurrentDateIsNearestCalendarDate ==
    ppc = "loop" =>
        /\ current_date = NearestDate(text)
        /\ RowReturned => row.value.start_date = NearestDate(text)
        /\ NearestDate(text) = None => entries = << >>

\* C4: a flight row with exactly two time tokens gets them as departure and
\* arrival when it continues the previous entry's flight and that entry has a
\* report time but no departure time, else as departure and arrival when it is
\* a turnaround, else as report and departure; so two time fields are set.
C4_TwoTimes ==
    ( OnFlightRow /\ Len(FindTimes(row.line)) = 2 )
    => /\ RowReturned
       /\ LET t == FindTimes(row.line)
              e == row.value
          IN  IF RowSame /\ Truthy(row.prev.rpt) /\ ~Truthy(row.prev.std)
              THEN TimesAre(e, None, t[1], t[2])
              ELSE IF RowTurn
              THEN TimesAre(e, None, t[1], t[2])
              ELSE TimesAre(e, t[1], t[2], None)

\* C5: a flight row with exactly one time token gets it as arrival when it
\* continues the previous entry's flight and that entry lacks an arrival time,
\* else as departure when it is a turnaround, else as arrival when the
\* destination is SIN, else as report; so one time field is set.
C5_OneTime ==
    ( OnFlightRow /\ Len(FindTimes(row.line)) = 1 )
    => /\ RowReturned
       /\ LET t == FindTimes(row.line)
              e == row.value
          IN  IF RowSame /\ ~Truthy(row.prev.sta)
              THEN TimesAre(e, None, None, t[1])
              ELSE IF RowTurn
              THEN TimesAre(e, None, t[1], None)
              ELSE IF e.destination = SIN
              THEN TimesAre(e, None, None, t[1])
              ELSE TimesAre(e, t[1], None, None)

\* C6: every line with a standby code yields one Standby entry whose report,
\* departure and arrival times are the first three time tokens and whose duty
\* duration and flight-duty-period are the first two duration tokens, each
\* absent when the line has fewer tokens.
C6_StandbyRow ==
    ( row.called /\ standby_search(row.line) # None )
    => /\ RowReturned
       /\ LET t == FindTimes(row.line)
              d == FindDurations(row.line)
              e == row.value
          IN  /\ e.duty_type = standby_search(row.line)
              /\ TimesAre(e, NthOrNone(t, 1), NthOrNone(t, 2), NthOrNone(t, 3))
              /\ e.duty_time = NthOrNone(d, 1)
              /\ e.fdp = NthOrNone(d, 2)
              /\ entries # << >> /\ entries[Len(entries)] = e

\* C7: on a flight row with three or more duration tokens the entry's flight
\* duration, duty duration and flight-duty-period are the first three tokens;
\* with two tokens they are absent, the first and the second token.
C7_Durations ==
    ( OnFlightRow /\ Len(FindDurations(row.line)) >= 2 )
    => /\ RowReturned
       /\ LET d == FindDurations(row.line)
              e == row.value
          IN  IF Len(d) >= 3
              THEN e.flight_time = d[1] /\ e.duty_time = d[2] /\ e.fdp = d[3]
              ELSE e.flight_time = None /\ e.duty_time = d[1] /\ e.fdp = d[2]

\* entry kinds, by duty_type: a Standby entry carries a code the Row Parser's
\* standby pattern matches
IsFlight(e)  == Get(e.duty_type) = FLY
IsStandby(e) == Truthy(Get(e.duty_type)) /\ standby_search(Get(e.duty_type)) # None

RECURSIVE Flatten(_)
Flatten(ts) == IF ts = << >> THEN << >> ELSE Head(ts) \o Flatten(Tail(ts))

\* C8: when group_trips returns, every trip is non-empty, no entry is in two
\* trips or twice in one, and the trips concatenated are the Flight and
\* Standby entries of the input, in input order.
C8_Partition ==
    gpc = "done" =>
        /\ \A i \in 1..Len(trips) : trips[i] # << >>
        /\ \A i, j \in 1..Len(Flatten(trips)) :
               i # j => Flatten(trips)[i].id # Flatten(trips)[j].id
        /\ Flatten(trips) = SelectSeq(gin, LAMBDA e : IsFlight(e) \/ IsStandby(e))

\* C9: an iteration of group_trips on a Standby entry emits the open trip,
\* if any, then the entry as a one-entry trip, and leaves no trip open.
C9_StandbySingleton ==
    ( gpc = "loop" /\ glast.called /\ IsStandby(glast.e) )
    => /\ trips = ( IF glast.current # << >> THEN Append(glast.trips, glast.current)
                    ELSE glast.trips ) \o << << glast.e >> >>
       /\ current = << >>

\* C10: an iteration of group_trips on a Flight entry while a trip is open
\* appends the entry to the open trip; the trip is emitted and closed if the
\* entry has destination SIN and an arrival time, and stays open otherwise.
C10_OpenTripAppends ==
    ( gpc = "loop" /\ glast.called /\ glast.current # << >> /\ IsFlight(glast.e) )
    => IF Get(glast.e.destination) = SIN /\ Truthy(Get(glast.e.sta))
       THEN /\ current = << >>
            /\ trips = Append(glast.trips, Append(glast.current, glast.e))
       ELSE /\ current = Append(glast.current, glast.e)
            /\ trips = glast.trips

\* C10 witness: a flight departing SIN was appended to the open trip, and the
\* next flight, arriving at SIN with an arrival time, closed the trip of three
C10_Witness ==
    /\ gpc = "loop" /\ glast.called
    /\ Len(glast.current) = 2
    /\ glast.current[2].origin = SIN
    /\ glast.e.destination = SIN /\ Truthy(glast.e.sta)
    /\ current = << >>
    /\ trips = << Append(glast.current, glast.e) >>

IsOffDuty(e) == Truthy(Get(e.duty_type)) /\ off_duty_search(Get(e.duty_type)) # None
IsLayover(e) == Get(e.duty_type) = LO

\* C11: an iteration of group_trips on an OffDuty or Layover entry leaves the
\* emitted trips and the open trip as they were, and no trip group_trips
\* returns holds such an entry.
C11_NonFlightIgnored ==
    /\ ( gpc = "loop" /\ glast.called /\ (IsOffDuty(glast.e) \/ IsLayover(glast.e)) )
       => ( trips = glast.trips /\ current = glast.current )
    /\ gpc = "done"
       => \A i \in 1..Len(Flatten(trips)) :
              ~IsOffDuty(Flatten(trips)[i]) /\ ~IsLayover(Flatten(trips)[i])

\* C11 witness: a Layover entry was processed while a trip was open and
\* another had been emitted
C11_Witness ==
    /\ gpc = "loop" /\ glast.called /\ IsLayover(glast.e)
    /\ glast.current # << >> /\ glast.trips # << >>
    /\ current = glast.current

\* C12: an iteration of group_trips on a flight from another station to SIN
\* emits it as a one-entry trip and leaves no trip open when none was open,
\* with or without an arrival time; when a trip was open the flight is
\* appended to it.
C12_BrokenArrival ==
    ( /\ gpc = "loop" /\ glast.called /\ IsFlight(glast.e)
      /\ Get(glast.e.origin) # SIN /\ Get(glast.e.destination) = SIN )
    => IF glast.current = << >>
       THEN trips = Append(glast.trips, << glast.e >>) /\ current = << >>
       ELSE \/ current = Append(glast.current, glast.e) /\ trips = glast.trips
            \/ /\ current = << >>
               /\ trips = Append(glast.trips, Append(glast.current, glast.e))

\* C12 witness: a flight to SIN without an arrival time arrived while no trip
\* was open and was emitted as a trip of its own
C12_Witness ==
    /\ gpc = "loop" /\ glast.called /\ IsFlight(glast.e)
    /\ Get(glast.e.origin) # SIN /\ Get(glast.e.destination) = SIN
    /\ ~Truthy(Get(glast.e.sta))
    /\ glast.current = << >>
    /\ trips = Append(glast.trips, << glast.e >>) /\ current = << >>

\* C13: in the entries parse_timesheet hands to group_trips no flight entry
\* that carries an arrival time and no departure time stands right after an
\* entry of the same flight number and sector that lacks an arrival time:
\* such a continuation row is folded into the entry before it.
C13_ContinuationFolded ==
    ppc \in { "parsed", "composed" } =>
        \A i \in 2..Len(entries) :
            ~ ( /\ entries[i].duty_type = FLY
                /\ Truthy(entries[i].flight_number)
                /\ entries[i].flight_number = entries[i - 1].flight_number
                /\ entries[i].sector = entries[i - 1].sector
                /\ Truthy(entries[i].sta) /\ ~Truthy(entries[i].std)
                /\ ~Truthy(entries[i - 1].sta) )

\* C14: the merge run on its own output returns that output unchanged.
C14_MergeIdempotent ==
    ( merged.called /\ merged.runs = 2 ) => merged.value = merged.input

\* s.split("\n")
RECURSIVE SplitLines(_)
SplitLines(s) ==
    IF \A i \in 1..Len(s) : s[i] # "\n" THEN << s >>
    ELSE << SubSeq(s, 1, (CHOOSE k \in 1..Len(s) : s[k] = "\n" /\ \A j \in 1..(k - 1) : s[j] # "\n") - 1) >>
         \o SplitLines(SubSeq(s, (CHOOSE k \in 1..Len(s) : s[k] = "\n" /\ \A j \in 1..(k - 1) : s[j] # "\n") + 1, Len(s)))

\* every date of the roster is well-formed: each start date is a calendar
\* date, and so is the arrival date of each flight that has one
RosterDatesWellFormed ==
    \A i \in 1..Len(gin) :
        /\ parse_date_str(gin[i].start_date).raised = "none"
        /\ IsFlight(gin[i]) => \/ gin[i].arrival_date = Missing
                               \/ parse_date_str(gin[i].arrival_date).raised = "none"

\* C15: for a non-empty trip list made by group_trips of entries with
\* well-formed dates, trips_to_message returns the header of the month and
\* year of the first trip's start date followed by exactly one line per trip,
\* in trip order (the i-th line opens with the start date of the i-th trip),
\* a trip still open at the end of the roster included.
C15_OneLinePerTrip ==
    ( gpc = "grouped" /\ reply.called /\ trips # << >> /\ RosterDatesWellFormed ) =>
        /\ reply.raised = "none"
        /\ Len(SplitLines(reply.value)) = 1 + Len(trips)
        /\ SplitLines(reply.value)[1] =
               FlightsFor \o MonthNameUpper[parse_date_str(trips[1][1].start_date).m]
               \o << " " >> \o Pad4(parse_date_str(trips[1][1].start_date).y) \o << "*", ":" >>
        /\ \A i \in 1..Len(trips) :
               StartsWith(SplitLines(reply.value)[i + 1],
                          FormatDayMonth(parse_date_str(trips[i][1].start_date)) \o Dash)

\* the outbound leg of a trip (its first flight from SIN) and its inbound leg
\* (its last flight to SIN), as positions in the trip; 0 when there is none
OutboundLeg(trip) ==
    IF \E i \in 1..Len(trip) : IsFlight(trip[i]) /\ trip[i].origin = SIN
    THEN CHOOSE i \in 1..Len(trip) :
             /\ IsFlight(trip[i]) /\ trip[i].origin = SIN
             /\ \A j \in 1..(i - 1) : ~ (IsFlight(trip[j]) /\ trip[j].origin = SIN)
    ELSE 0
InboundLeg(trip) ==
    IF \E i \in 1..Len(trip) : IsFlight(trip[i]) /\ trip[i].destination = SIN
    THEN CHOOSE i \in 1..Len(trip) :
             /\ IsFlight(trip[i]) /\ trip[i].destination = SIN
             /\ \A j \in (i + 1)..Len(trip) : ~ (IsFlight(trip[j]) /\ trip[j].destination = SIN)
    ELSE 0

\* the last flight of a trip and the date the trip ends on: the arrival date
\* of the last flight when it has one, else its start date
LastFlight(trip) == FlyOf(trip)[Len(FlyOf(trip))]
TripEnd(trip) ==
    IF Truthy(Get(LastFlight(trip).arrival_date))
    THEN parse_date_str(LastFlight(trip).arrival_date)
    ELSE parse_date_str(LastFlight(trip).start_date)

\* a four-digit time shown as HH:MM
HHMM(t) == SubSeq(t, 1, 2) \o << ":" >> \o SubSeq(t, 3, 4)

\* the line "start - end | away-station | HH:MM(flight) | HH:MM(flight)"
RoundTripLine(trip, out, inb) ==
    FormatDayMonth(parse_date_str(trip[1].start_date)) \o Dash
    \o FormatDayMonth(TripEnd(trip)) \o Sep \o out.destination \o Sep
    \o HHMM(out.rpt) \o << "(" >> \o out.flight_number \o << ")" >> \o Sep
    \o HHMM(inb.sta) \o << "(" >> \o inb.flight_number \o << ")" >>

\* C16: the message line of a trip with an outbound leg and an inbound leg is
\* "start - end | away-station | HH:MM(outbound flight) | HH:MM(inbound flight)"
\* with the outbound report time and the inbound arrival time; so the roster
\* SQ123 SIN-HKG 0900 1015 on 01Jan25, SQ124 HKG-SIN 1800 on 02Jan25 gives
\* the line "01Jan - 02Jan | HKG | 09:00(SQ123) | 18:00(SQ124)".
C16_RoundTripLine ==
    ( gpc = "grouped" /\ reply.called /\ RosterDatesWellFormed ) =>
        \A i \in 1..Len(trips) :
            ( /\ OutboundLeg(trips[i]) # 0 /\ InboundLeg(trips[i]) # 0
              /\ trips[i][1].origin = SIN
              /\ Truthy(trips[i][OutboundLeg(trips[i])].rpt)
              /\ Truthy(trips[i][InboundLeg(trips[i])].sta) ) =>
                /\ reply.raised = "none"
                /\ Len(SplitLines(reply.value)) > i
                /\ SplitLines(reply.value)[i + 1] =
                       RoundTripLine(trips[i], trips[i][OutboundLeg(trips[i])],
                                     trips[i][InboundLeg(trips[i])])

\* the shapes of the columns of a sheet row
IsDigits(s) == \A i \in 1..Len(s) : s[i] \in Digit
IsSheetDate(s) ==
    /\ Len(s) = 10 /\ s[3] = "/" /\ s[6] = "/"
    /\ IsDigits(SubSeq(s, 1, 2)) /\ IsDigits(SubSeq(s, 4, 5)) /\ IsDigits(SubSeq(s, 7, 10))
    /\ IntOf(SubSeq(s, 1, 2)) \in 1..12
    /\ IntOf(SubSeq(s, 4, 5)) \in 1..DaysInMonth(IntOf(SubSeq(s, 7, 10)), IntOf(SubSeq(s, 1, 2)))
IsStation(s) == s = << >> \/ (Len(s) = 3 /\ \A i \in 1..3 : s[i] \in Upper)
IsClock(s) == /\ Len(s) = 5 /\ s[3] = ":"
              /\ IsDigits(SubSeq(s, 1, 2)) /\ IsDigits(SubSeq(s, 4, 5))
IsTimeColumn(s) == s = << >> \/ s = << "-" >> \/ IsClock(s)
IsDecimal(s) ==
    \/ s = << >>
    \/ \E k \in 2..(Len(s) - 1) :
          /\ s[k] = "." /\ IsDigits(SubSeq(s, 1, k - 1)) /\ IsDigits(SubSeq(s, k + 1, Len(s)))
IsSheetRow(r) ==
    /\ Len(r) = 13
    /\ IsSheetDate(r[1])
    /\ IsStation(r[2]) /\ IsStation(r[3])
    /\ r[4] \in { Turnaround, Layover }
    /\ \A c \in 5..8 : IsTimeColumn(r[c])
    /\ IsDigits(r[9]) /\ IsDigits(r[10]) /\ IsDecimal(r[11])
    /\ IsDigits(r[12]) /\ IsDigits(r[13])

\* C17: every row trips_to_sheet_rows returns has exactly 13 columns: the date
\* as MM/DD/YYYY, the from-station, the to-station, the day type, four time
\* columns, duty hours, duty minutes, duty decimal hours, flight hours and
\* flight minutes; the day type is Turnaround or Layover.
C17_RowShape ==
    ( sheet.called /\ sheet.raised = "none" ) =>
        \A i \in 1..Len(sheet.value) : IsSheetRow(sheet.value[i])

\* C17 witness: rows were returned for a turnaround trip and for another trip,
\* among them a row that stands for the arrival of a flight on the next day
C17_Witness ==
    /\ sheet.called /\ sheet.raised = "none"
    /\ \E i \in 1..Len(sheet.value) : sheet.value[i][4] = Turnaround
    /\ \E i \in 1..Len(sheet.value) :
           sheet.value[i][4] = Layover /\ sheet.value[i][6] = << "-" >>

\* the rows of the sheet that carry the date dt
RowsDated(dt) == { i \in 1..Len(sheet.value) : sheet.value[i][1] = SheetDate(dt) }

\* the sheet rows were returned for the single trip group_trips made
OneTripRendered ==
    /\ gpc = "grouped" /\ Len(trips) = 1
    /\ sheet.called /\ sheet.raised = "none"
    /\ RosterDatesWellFormed

\* the trip is two flights A-B then B-A on one date
IsTurnaroundTrip(trip) ==
    /\ Len(trip) = 2 /\ IsFlight(trip[1]) /\ IsFlight(trip[2])
    /\ trip[1].start_date = trip[2].start_date
    /\ trip[1].origin = trip[2].destination /\ trip[1].destination = trip[2].origin

\* C18: for a trip of two consecutive flights A-B then B-A on the same date
\* the renderer emits exactly one row for that date, typed Turnaround, and
\* no Layover row for it.
C18_OneTurnaroundRow ==
    ( OneTripRendered /\ IsTurnaroundTrip(trips[1]) ) =>
        /\ Cardinality(RowsDated(parse_date_str(trips[1][1].start_date))) = 1
        /\ \A i \in RowsDated(parse_date_str(trips[1][1].start_date)) :
               sheet.value[i][4] = Turnaround

\* the flight arrives at a time numerically less than its report time
IsOvernightFlight(e) ==
    /\ IsFlight(e) /\ Truthy(e.rpt) /\ Truthy(e.sta)
    /\ IsDigits(e.rpt) /\ IsDigits(e.sta) /\ IntOf(e.sta) < IntOf(e.rpt)

\* C19: every flight whose arrival time is less than its report time is
\* rendered, in whatever trip it occurs, as a row dated its start date whose
\* arrival field is "-" and a row dated the next calendar day that carries
\* the arrival time.
C19_OvernightSplit ==
    OneTripRendered =>
        \A k \in 1..Len(trips[1]) :
            IsOvernightFlight(trips[1][k]) =>
                /\ \E i \in RowsDated(parse_date_str(trips[1][k].start_date)) :
                       \/ sheet.value[i][6] = << "-" >>
                       \/ sheet.value[i][8] = << "-" >>
                /\ \E i \in RowsDated(NextDay(parse_date_str(trips[1][k].start_date))) :
                       \/ sheet.value[i][6] = HHMM(trips[1][k].sta)
                       \/ sheet.value[i][8] = HHMM(trips[1][k].sta)

\* the trip is a single flight that arrives at SIN from elsewhere
IsArrivalOnly(trip) ==
    /\ Len(FlyOf(trip)) = 1
    /\ FlyOf(trip)[1].origin # SIN /\ FlyOf(trip)[1].destination = SIN

\* C20: for a flight trip that is not a single arrival-only flight, every
\* calendar day from the start date of its first flight to its end date is
\* the date of at least one row, also a day whose only flight runs between
\* two stations neither of which is SIN.
C20_EveryDayHasRow ==
    ( OneTripRendered /\ FlyOf(trips[1]) # << >> /\ ~IsArrivalOnly(trips[1]) ) =>
        \A n \in 0..(Ordinal(TripEnd(trips[1]))
                      - Ordinal(parse_date_str(FlyOf(trips[1])[1].start_date))) :
            RowsDated(DatesFrom(parse_date_str(FlyOf(trips[1])[1].start_date), n + 1)[n + 1])
                # { }

\* the rows of the sheet with a duration column that is not blank
RowsWithDurations ==
    { i \in 1..Len(sheet.value) : \E c \in 9..13 : sheet.value[i][c] # << >> }

\* the five duration columns as the flight e fills them
DurationsOf(e) ==
    << split_duration(Get(e.duty_time)).h, split_duration(Get(e.duty_time)).m,
       decimal_hours(split_duration(Get(e.duty_time)).h,
                     split_duration(Get(e.duty_time)).m).value,
       split_duration(Get(e.flight_time)).h, split_duration(Get(e.flight_time)).m >>

\* r is the row of the departure of the flight e: it is dated the start date
\* and names the stations of e
IsDepartureRowOf(e, r) ==
    /\ r[1] = SheetDate(parse_date_str(e.start_date))
    /\ r[2] = e.origin /\ r[3] = e.destination

\* r is the row of the arrival of the flight e: it names the destination and
\* shows the arrival time of e
IsArrivalRowOf(e, r) ==
    /\ r[3] = e.destination
    /\ \/ r[6] = format_time(Get(e.sta))
       \/ r[8] = format_time(Get(e.sta))

\* the flights of the trip are in date order and each leaves from the station
\* the one before it arrived at
IsItinerary(trip) ==
    \A k \in 2..Len(trip) :
        /\ IsFlight(trip[k - 1]) /\ IsFlight(trip[k])
        /\ trip[k].origin = trip[k - 1].destination
        /\ Ordinal(parse_date_str(trip[k - 1].start_date))
               <= Ordinal(parse_date_str(trip[k].start_date))

\* C21: among the rows of one trip the five duration columns are non-blank
\* on at most two rows: the row of the trip's first departure, filled from
\* the first flight, and the row of the trip's last arrival, filled from the
\* last flight; on every other row all five are blank.
C21_DurationsOnFirstAndLast ==
    ( OneTripRendered /\ FlyOf(trips[1]) # << >> /\ IsItinerary(trips[1]) ) =>
        /\ Cardinality(RowsWithDurations) <= 2
        /\ \A i \in RowsWithDurations :
               \/ /\ IsDepartureRowOf(FlyOf(trips[1])[1], sheet.value[i])
                  /\ SubSeq(sheet.value[i], 9, 13) = DurationsOf(FlyOf(trips[1])[1])
               \/ /\ IsArrivalRowOf(LastFlight(trips[1]), sheet.value[i])
                  /\ SubSeq(sheet.value[i], 9, 13) = DurationsOf(LastFlight(trips[1]))

\* the entry has a start date or an arrival date that is not a calendar date
\* written DDMonYY
HasMalformedDate(e) ==
    \/ parse_date_str(e.start_date).raised # "none"
    \/ /\ e.arrival_date \notin { Missing, None }
       /\ parse_date_str(e.arrival_date).raised # "none"

\* C22: when a trip holds an entry whose start date or arrival date is not a
\* valid date, trips_to_message and trips_to_sheet_rows fail with an error
\* and return no output.
C22_MalformedDateFails ==
    ( /\ gpc \in { "grouped", "given" }
      /\ \E i \in 1..Len(trips) : \E k \in 1..Len(trips[i]) : HasMalformedDate(trips[i][k]) ) =>
        /\ reply.called => reply.raised # "none"
        /\ sheet.called => sheet.raised # "none"

\* every entry of every trip is the entry of the roster at its position,
\* with the same value in every field
TripsHoldEntries ==
    \A i \in 1..Len(trips) : \A k \in 1..Len(trips[i]) :
        /\ trips[i][k].id \in 1..Len(gin)
        /\ trips[i][k] = gin[trips[i][k].id]

\* C23: group_trips, trips_to_message and trips_to_sheet_rows leave the entry
\* list and every field of every entry as they were: the trips group_trips
\* returns hold the entries it was given, unaltered, and a call of a renderer
\* changes neither the entries nor the trips.
C23_EntriesUnchanged ==
    [][ /\ ( gpc = "roster" /\ gpc' = "grouped" ) => ( gin' = gin /\ TripsHoldEntries' )
        /\ ( gpc \in { "grouped", "given" } ) => ( gin' = gin /\ trips' = trips ) ]_vars

\* C23 witness: group_trips made a trip of several entries and both renderers
\* ran on it
C23_Witness ==
    /\ gpc = "grouped" /\ trips # << >> /\ Len(trips[1]) >= 2
    /\ reply.called /\ sheet.called /\ sheet.raised = "none"

\* the call lu handled a callback with one of the given data values from the
\* chat c
IsCallbackOf(lu, c, values) ==
    /\ lu.called /\ lu.update.path_ok /\ lu.update.callback.present
    /\ lu.update.callback.chat = c /\ lu.update.callback.data \in values

\* C24: a pending upload leads to at most one append attempt. A CONFIRM_YES
\* from a trusted chat leaves the chat without a pending upload, whether the
\* append succeeded or failed, and appends at most one row; a CONFIRM_YES
\* that comes right after a CONFIRM_YES or CONFIRM_NO of the same trusted chat
\* appends nothing and is answered "No pending data."; a callback from a chat
\* that is not trusted changes no pending upload and appends nothing.
C24_AtMostOneAppend ==
    [][ \A c \in ChatIds :
          /\ ( c \in TRUSTED_CHAT_IDS /\ IsCallbackOf(last_update', c, { "CONFIRM_YES" }) ) =>
                 /\ c \notin DOMAIN PENDING_UPLOADS'
                 /\ Len(appended') <= 1
                 /\ appended' # << >> => c \in DOMAIN PENDING_UPLOADS
          /\ ( /\ c \in TRUSTED_CHAT_IDS
               /\ IsCallbackOf(last_update, c, { "CONFIRM_YES", "CONFIRM_NO" })
               /\ IsCallbackOf(last_update', c, { "CONFIRM_YES" }) ) =>
                 /\ appended' = << >>
                 /\ sent' = << Msg(c, "No pending data.", FALSE) >>
          /\ ( /\ c \notin TRUSTED_CHAT_IDS
               /\ IsCallbackOf(last_update', c, { "CONFIRM_YES", "CONFIRM_NO", "OTHER" }) ) =>
                 /\ PENDING_UPLOADS' = PENDING_UPLOADS
                 /\ appended' = << >> ]_vars

\* C24 witness: a trusted chat with a pending upload confirmed, the append
\* failed, and the pending upload is gone
C24_Witness ==
    /\ \E c \in TRUSTED_CHAT_IDS :
           /\ IsCallbackOf(last_update, c, { "CONFIRM_YES" })
           /\ c \in DOMAIN last_update.pending
           /\ c \notin DOMAIN PENDING_UPLOADS
    /\ ~last_update.update.env.append_ok
    /\ appended = << >>

====
